---- MODULE Spec2Model ----
(***************************************************************************)
(* Model of the Query / Ui parser-reifier pair of                          *)
(* experimental/copperfield/ui/src/parsers.ts.                             *)
(*                                                                         *)
(* Strings are sequences of one-character strings, so that tokenizing,     *)
(* slicing and joining are computed as the code computes them.  JavaScript *)
(* `undefined` is the value UNDEF; identifiers (uuids, view ids, field     *)
(* ids, element ids) are strings.                                          *)
(***************************************************************************)
EXTENDS Integers, Sequences, FiniteSets, TLC

\* ---------------------------------------------------------------------------
\* Strings
\* ---------------------------------------------------------------------------
UNDEF == <<"<undefined>">>
NL == "\n"
SP == " "
TAB == "\t"

S_undefined == <<"u","n","d","e","f","i","n","e","d">>
S_true == <<"t","r","u","e">>
S_false == <<"f","a","l","s","e">>
S_by == <<"b","y">>
S_ascending == <<"a","s","c","e","n","d","i","n","g">>
S_descending == <<"d","e","s","c","e","n","d","i","n","g">>
S_parent == <<"p","a","r","e","n","t">>
S_id == <<"i","d">>
S_div == <<"d","i","v">>
S_eq == <<" ", "=", " ">>


\* s.slice(from) with a 0-based index
Drop(s, from) == IF from >= Len(s) THEN <<>> ELSE SubSeq(s, from + 1, Len(s))
\* s.slice(0, to)
Take(s, to) == SubSeq(s, 1, IF to < Len(s) THEN to ELSE Len(s))

RECURSIVE IndexOfFrom(_, _, _)
IndexOfFrom(s, t, i) ==
  IF i + Len(t) > Len(s) THEN -1
  ELSE IF \A k \in 1..Len(t) : s[i + k] = t[k] THEN i
  ELSE IndexOfFrom(s, t, i + 1)

\* s.indexOf(t), 0-based, -1 when absent
IndexOf(s, t) == IndexOfFrom(s, t, 0)

\* array.indexOf(x), 0-based, -1 when absent
ArrIndexOf(arr, x) ==
  LET hits == {i \in 1..Len(arr) : arr[i] = x}
  IN IF hits = {} THEN -1 ELSE (CHOOSE i \in hits : \A j \in hits : i <= j) - 1

InArr(arr, x) == \E i \in 1..Len(arr) : arr[i] = x

RECURSIVE Join(_)
\* array.join("")
Join(arr) == IF arr = <<>> THEN <<>> ELSE Head(arr) \o Join(Tail(arr))

RECURSIVE JoinWith(_, _)
\* array.join(sep)
JoinWith(arr, sep) ==
  IF arr = <<>> THEN <<>>
  ELSE IF Len(arr) = 1 THEN arr[1]
  ELSE arr[1] \o sep \o JoinWith(Tail(arr), sep)

RECURSIVE Split(_, _)
\* s.split(c) for a one-character separator
Split(s, c) ==
  LET ix == IndexOf(s, <<c>>)
  IN IF ix = -1 THEN <<s>> ELSE <<Take(s, ix)>> \o Split(Drop(s, ix + 1), c)

IsWs(c) == c = SP \/ c = TAB

RECURSIVE TrimLeft(_)
TrimLeft(s) == IF s # <<>> /\ IsWs(Head(s)) THEN TrimLeft(Tail(s)) ELSE s

RECURSIVE TrimRight(_)
TrimRight(s) == IF s # <<>> /\ IsWs(s[Len(s)]) THEN TrimRight(SubSeq(s, 1, Len(s) - 1)) ELSE s

\* s.trim()
Trim(s) == TrimRight(TrimLeft(s))

UpperOf == [c \in {"A", "B", "D"} |-> CASE c = "A" -> "a" [] c = "B" -> "b" [] c = "D" -> "d"]
\* s.toLowerCase() on the alphabet of the inputs
ToLowerCase(s) == [i \in 1..Len(s) |-> IF s[i] \in DOMAIN UpperOf THEN UpperOf[s[i]] ELSE s[i]]

DigitChars == <<"0","1","2","3","4","5","6","7","8","9">>
IsDigit(c) == InArr(DigitChars, c)

RECURSIVE Dec(_)
\* String(n) for a natural number
Dec(n) == IF n < 10 THEN <<DigitChars[n + 1]>> ELSE Dec(n \div 10) \o <<DigitChars[(n % 10) + 1]>>

\* Api.uuid(): the n-th identifier generated
Uuid(n) == <<"uuid-">> \o Dec(n)

\* `let x = ...`: the value x bound to a name in what follows
With(x, F(_)) == F(x)
With2(x, y, F(_, _)) == F(x, y)
With3(x, y, z, F(_, _, _)) == F(x, y, z)

\* ---------------------------------------------------------------------------
\* Utilities
\* ---------------------------------------------------------------------------
PUNCTUATION == <<<<".">>, <<",">>, <<";">>, <<":">>>>

\* The scan of the token alphabet inside makeTokenizer: the earliest match,
\* the first token of the list winning a tie.
RECURSIVE TokScan(_, _, _, _)
TokScan(tokens, raw, minIx, minToken) ==
  IF tokens = <<>> THEN [ix |-> minIx, tok |-> minToken]
  ELSE LET ix == IndexOf(raw, Head(tokens))
       IN IF ix # -1 /\ ix < minIx
          THEN TokScan(Tail(tokens), raw, ix, Head(tokens))
          ELSE TokScan(Tail(tokens), raw, minIx, minToken)

RECURSIVE makeTokenizer(_, _)
makeTokenizer(tokens, raw) ==
  IF raw = <<>> THEN <<>>
  ELSE LET m == TokScan(tokens, raw, Len(raw), raw)
           pre == IF m.ix > 0 /\ m.ix < Len(raw) THEN <<Take(raw, m.ix)>> ELSE <<>>
       IN pre \o <<m.tok>> \o makeTokenizer(tokens, Drop(raw, m.ix + Len(m.tok)))

\* consume(needles, tokens): the consumed token (UNDEF when none) and the rest
consume(needles, tokens) ==
  IF tokens = <<>> \/ ~InArr(needles, tokens[1])
  THEN [res |-> UNDEF, rest |-> tokens]
  ELSE [res |-> tokens[1], rest |-> Tail(tokens)]

RECURSIVE consumeWhile(_, _)
consumeWhile(needles, tokens) ==
  IF tokens = <<>> \/ ~InArr(needles, tokens[1])
  THEN [res |-> <<>>, rest |-> tokens, n |-> 0]
  ELSE LET r == consumeWhile(needles, Tail(tokens))
       IN [res |-> tokens[1] \o r.res, rest |-> r.rest, n |-> r.n + 1]

RECURSIVE consumeUntil(_, _)
\* ended is TRUE when the tokens ran out before a needle (the throwing case
\* when an error is passed)
consumeUntil(needles, tokens) ==
  IF tokens = <<>> THEN [res |-> <<>>, rest |-> <<>>, ended |-> TRUE]
  ELSE IF InArr(needles, tokens[1]) THEN [res |-> <<>>, rest |-> tokens, ended |-> FALSE]
  ELSE LET r == consumeUntil(needles, Tail(tokens))
       IN [res |-> tokens[1] \o r.res, rest |-> r.rest, ended |-> r.ended]

\* ---------------------------------------------------------------------------
\* Literal values: t is the JavaScript type, s is String(value)
\* ---------------------------------------------------------------------------
NoValue == [t |-> "undefined", s |-> <<>>]
StrValue(s) == [t |-> "string", s |-> s]

AllDigits(s) == s # <<>> /\ \A i \in 1..Len(s) : IsDigit(s[i])

RECURSIVE StripZeros(_)
StripZeros(s) == IF Len(s) > 1 /\ s[1] = "0" THEN StripZeros(Tail(s)) ELSE s

RECURSIVE StripTrailingZeros(_)
StripTrailingZeros(s) ==
  IF s # <<>> /\ s[Len(s)] = "0" THEN StripTrailingZeros(SubSeq(s, 1, Len(s) - 1)) ELSE s

\* String(parseInt(s)) for s matching /^-?\d+$/
IntString(s) ==
  LET neg == s[1] = "-"
      mag == StripZeros(IF neg THEN Tail(s) ELSE s)
  IN IF neg /\ mag # <<"0">> THEN <<"-">> \o mag ELSE mag

\* String(parseFloat(s)) for s matching /^-?\d+\.\d+$/
FloatString(s) ==
  LET neg == s[1] = "-"
      body == IF neg THEN Tail(s) ELSE s
      dot == IndexOf(body, <<".">>)
      ip == StripZeros(Take(body, dot))
      fp == StripTrailingZeros(Drop(body, dot + 1))
      mag == IF fp = <<>> THEN ip ELSE ip \o <<".">> \o fp
  IN IF neg /\ mag # <<"0">> THEN <<"-">> \o mag ELSE mag

IsIntText(s) ==
  LET body == IF s # <<>> /\ s[1] = "-" THEN Tail(s) ELSE s IN AllDigits(body)

IsFloatText(s) ==
  LET body == IF s # <<>> /\ s[1] = "-" THEN Tail(s) ELSE s
      dot == IndexOf(body, <<".">>)
  IN dot > 0 /\ AllDigits(Take(body, dot)) /\ AllDigits(Drop(body, dot + 1))

coerceInput(input) ==
  IF IsIntText(input) THEN [t |-> "number", s |-> IntString(input)]
  ELSE IF IsFloatText(input) THEN [t |-> "number", s |-> FloatString(input)]
  ELSE IF input = S_true THEN [t |-> "boolean", s |-> S_true]
  ELSE IF input = S_false THEN [t |-> "boolean", s |-> S_false]
  ELSE StrValue(input)

\* JavaScript truthiness of a literal value
Truthy(v) ==
  CASE v.t = "undefined" -> FALSE
    [] v.t = "number" -> v.s # <<"0">>
    [] v.t = "boolean" -> v.s = S_true
    [] OTHER -> v.s # <<>>

\* ---------------------------------------------------------------------------
\* Tokens and lines (every record of a kind has the same fields; a field the
\* code leaves out is UNDEF, FALSE, NoValue or -1)
\* ---------------------------------------------------------------------------
\* The backtick character (a TLA+ string cannot hold one)
BQ == "'"

Token(type, text, tokenIx) ==
  [type |-> type, text |-> text, alias |-> UNDEF, grouped |-> FALSE, value |-> NoValue,
   tokenIx |-> tokenIx, lineIx |-> -1, indent |-> 0]

FieldToken(alias, grouped, value, tokenIx) ==
  [type |-> "field", text |-> UNDEF, alias |-> alias, grouped |-> grouped, value |-> value,
   tokenIx |-> tokenIx, lineIx |-> -1, indent |-> 0]

Line(type, chunks, lineIx, indent) ==
  [type |-> type, chunks |-> chunks, lineIx |-> lineIx, indent |-> indent, negated |-> FALSE,
   alias |-> UNDEF, directions |-> <<>>, text |-> UNDEF, partIx |-> -1]

\* The {type: "text", text: "", lineIx} chunk that stands for an empty line
BlankLine(lineIx, indent) ==
  [type |-> "text", text |-> <<>>, lineIx |-> lineIx, indent |-> indent]

UiLine(type, lineIx, indent) ==
  [type |-> type, lineIx |-> lineIx, indent |-> indent, text |-> UNDEF, property |-> UNDEF,
   value |-> FieldToken(UNDEF, FALSE, NoValue, -1), static |-> FALSE, event |-> UNDEF,
   hasKey |-> FALSE, key |-> FieldToken(UNDEF, FALSE, NoValue, -1),
   tag |-> UNDEF, classes |-> UNDEF, name |-> UNDEF]

tokenIsLine(token) == "chunks" \in DOMAIN token
tokenIsText(token) == token.type = "text"
tokenIsComment(token) == token.type = "comment"
tokenIsKeyword(token) == token.type = "keyword"
tokenIsField(token) == token.type = "field"
tokenIsSource(token) == token.type = "source"
tokenIsOrdinal(token) == token.type = "ordinal"
tokenIsCalculation(token) == token.type = "calculation"
tokenIsAction(token) == token.type = "action"
tokenIsAttribute(token) == token.type = "attribute"
tokenIsBinding(token) == token.type = "binding"
tokenIsEvent(token) == token.type = "event"
tokenIsElement(token) == token.type = "element"

\* new Array(n + 1).join(" ")
Spaces(n) == [i \in 1..n |-> SP]

\* `${x || ""}` for a string that may be undefined
OrEmpty(s) == IF s = UNDEF THEN <<>> ELSE s

RECURSIVE tokenToString(_)
RECURSIVE ChunksToString(_, _)
\* the chunk loop of tokenToString: a line break between chunks whose lineIx differ
ChunksToString(chunks, prevIx) ==
  IF chunks = <<>> THEN <<>>
  ELSE LET c == Head(chunks)
           sep == IF prevIx # -2 /\ c.lineIx # prevIx THEN <<NL>> ELSE <<>>
       IN sep \o tokenToString(c) \o ChunksToString(Tail(chunks), c.lineIx)

tokenToString(token) ==
  LET padding == IF token.indent > 0 THEN Spaces(token.indent) ELSE <<>>
  IN IF tokenIsCalculation(token) /\ token.text # UNDEF /\ token.text # <<>> THEN token.text
     ELSE IF tokenIsLine(token) THEN padding \o ChunksToString(token.chunks, -2)
     ELSE IF tokenIsField(token) THEN
       IF token.value.t # "undefined"
       THEN <<BQ>> \o (IF Truthy(token.value) THEN token.value.s ELSE <<>>) \o <<BQ>>
       ELSE <<"?">> \o (IF token.grouped THEN <<"?">> ELSE <<>>) \o OrEmpty(token.alias)
     ELSE IF tokenIsAttribute(token)
       THEN padding \o <<"-", SP>> \o token.property \o <<":", SP>> \o tokenToString(token.value)
     ELSE IF tokenIsElement(token) THEN
       padding \o OrEmpty(token.tag)
         \o (IF token.classes # UNDEF /\ token.classes # <<>> THEN token.classes ELSE <<>>)
         \o (IF token.name # UNDEF /\ token.name # <<>> THEN <<";", SP>> \o token.name ELSE <<>>)
     ELSE IF tokenIsBinding(token)
       THEN padding \o <<"~", SP>> \o JoinWith(Split(token.text, NL), <<NL>> \o padding \o <<"~", SP>>)
     ELSE IF tokenIsEvent(token) THEN
       padding \o <<"@", SP>> \o token.event
         \o (IF token.hasKey THEN <<":", SP>> \o tokenToString(token.key) ELSE <<>>)
     ELSE IF tokenIsComment(token) THEN padding \o <<";">> \o token.text
     ELSE IF tokenIsText(token) \/ tokenIsKeyword(token) THEN padding \o token.text
     ELSE UNDEF

\* ---------------------------------------------------------------------------
\* Errors: the message and the line ParseError reports
\* ---------------------------------------------------------------------------
ParseError(msg, tokenLineIx, curLineIx) ==
  [msg |-> msg, lineIx |-> IF tokenLineIx # -1 THEN tokenLineIx ELSE curLineIx]

NoError == [msg |-> "", lineIx |-> -1]

\* ---------------------------------------------------------------------------
\* parseField: ?[?][alias] or a quoted literal
\* ---------------------------------------------------------------------------
parseField(tokens, tokenIx, curLineIx) ==
  LET q == consume(<<<<"?">>>>, tokens)
      b == consume(<<<<BQ>>>>, tokens)
  IN IF q.res # UNDEF THEN
       LET g == consume(<<<<"?">>>>, q.rest)
           t2 == g.rest
           hasAlias == t2 # <<>> /\ t2[1] # <<SP>> /\ ~InArr(PUNCTUATION, t2[1])
       IN [kind |-> "field",
           field |-> FieldToken(IF hasAlias THEN t2[1] ELSE UNDEF, g.res # UNDEF, NoValue, tokenIx),
           rest |-> IF hasAlias THEN Tail(t2) ELSE t2,
           err |-> NoError]
     ELSE IF b.res # UNDEF THEN
       LET r == consumeUntil(<<<<BQ>>>>, b.rest)
       IN IF r.ended
          THEN [kind |-> "error", field |-> FieldToken(UNDEF, FALSE, NoValue, tokenIx), rest |-> r.rest,
                err |-> ParseError("Unterminated quoted literal.", -1, curLineIx)]
          ELSE [kind |-> "field", field |-> FieldToken(UNDEF, FALSE, coerceInput(r.res), tokenIx),
                rest |-> Tail(r.rest), err |-> NoError]
     ELSE [kind |-> "none", field |-> FieldToken(UNDEF, FALSE, NoValue, tokenIx), rest |-> tokens,
           err |-> NoError]

\* ---------------------------------------------------------------------------
\* Query parser
\* ---------------------------------------------------------------------------
Q_ACTION_TOKENS == <<<<"+">>>>
Q_KEYWORD_TOKENS ==
  <<<<"!">>, <<"(">>, <<")">>, <<"$", "=">>, <<"#">>, <<";">>, <<"?">>, <<BQ>>>> \o Q_ACTION_TOKENS
Q_TOKENS == <<<<SP>>, <<TAB>>>> \o Q_KEYWORD_TOKENS \o PUNCTUATION

Query_tokenize(line) == makeTokenizer(Q_TOKENS, line)

Query_parseKeyword(tokens, tokenIx) ==
  IF tokens # <<>> /\ InArr(Q_KEYWORD_TOKENS, tokens[1])
  THEN [ok |-> TRUE, token |-> Token("keyword", tokens[1], tokenIx), rest |-> Tail(tokens)]
  ELSE [ok |-> FALSE, token |-> Token("keyword", <<>>, tokenIx), rest |-> tokens]

Query_parseStructure(tokens, tokenIx) ==
  LET r == consumeUntil(Q_KEYWORD_TOKENS, tokens)
  IN [ok |-> r.res # <<>>, token |-> Token("text", r.res, tokenIx), rest |-> r.rest]

RECURSIVE ParseChunks(_, _, _, _)
\* the while loop of Query.parseLine
ParseChunks(tokens, tokensLength, lineIx, chunks) ==
  IF tokens = <<>> THEN [kind |-> "ok", chunks |-> chunks, err |-> NoError]
  ELSE With3(parseField(tokens, tokensLength - Len(tokens) + 1, lineIx),
             Query_parseKeyword(tokens, tokensLength - Len(tokens) + 1),
             Query_parseStructure(tokens, tokensLength - Len(tokens) + 1),
         LAMBDA f, k, s :
           IF f.kind = "error" THEN [kind |-> "error", chunks |-> chunks, err |-> f.err]
           ELSE IF f.kind = "field" THEN ParseChunks(f.rest, tokensLength, lineIx, Append(chunks, f.field))
           ELSE IF k.ok THEN ParseChunks(k.rest, tokensLength, lineIx, Append(chunks, k.token))
           ELSE IF s.ok THEN ParseChunks(s.rest, tokensLength, lineIx, Append(chunks, s.token))
           ELSE [kind |-> "error", chunks |-> chunks,
                 err |-> ParseError("Unrecognized token sequence.", lineIx, lineIx)])

\* kind is "line", "error" or "undefined" (a line with no chunks)
Query_parseLine(tokens, lineIx) ==
  With(consumeWhile(<<<<SP>>, <<TAB>>>>, tokens), LAMBDA padding :
    With(ParseChunks(padding.rest, Len(tokens), lineIx, <<>>), LAMBDA r :
      [kind |-> IF r.kind = "error" THEN "error" ELSE IF r.chunks # <<>> THEN "line" ELSE "undefined",
       line |-> Line("", r.chunks, lineIx, Len(padding.res)),
       err |-> r.err]))

\* The process* results: kind is "undefined" (not this kind of line), "line",
\* "error" or "throw" (a TypeError leaves the method)
PResult(kind, line, err) == [kind |-> kind, line |-> line, err |-> err]

\* processAction that takes no line for an action line
Query_processAction_skip(line) == PResult("undefined", line, NoError)

Query_processAction(line) ==
  LET kw == line.chunks[1]
  IN IF Len(line.chunks) < 1 \/ ~tokenIsKeyword(kw) \/ ~InArr(Q_ACTION_TOKENS, kw.text)
     THEN PResult("undefined", line, NoError)
     ELSE IF \E i \in 1..Len(line.chunks) :
               tokenIsField(line.chunks[i]) /\ line.chunks[i].alias = UNDEF
     THEN PResult("error", line,
                  ParseError("All action fields must be aliased to a query field.", -1, line.lineIx))
     ELSE PResult("line", [line EXCEPT !.type = "action"], NoError)

\* `_${resultField.alias}-${cur.partIx}`
PartAlias(resultAlias, partIx) ==
  <<"_">> \o (IF resultAlias = UNDEF THEN S_undefined ELSE resultAlias) \o <<"-">> \o Dec(partIx)

Part(partIx, lineIx) == [Line("source", <<>>, lineIx, 0) EXCEPT !.partIx = partIx]

RECURSIVE CalcLoop(_, _, _, _, _)
\* the token loop of processCalculation over line.chunks.slice(4)
CalcLoop(tokens, stack, lines, partIx, line) ==
  IF tokens = <<>> THEN [ok |-> TRUE, stack |-> stack, lines |-> lines]
  ELSE LET token == Head(tokens)
           cur == stack[Len(stack)]
           resultField == line.chunks[1]
       IN IF tokenIsKeyword(token) /\ token.text = <<"(">>
          THEN CalcLoop(Tail(tokens), Append(stack, Part(partIx, line.lineIx)), lines, partIx + 1, line)
          ELSE IF tokenIsKeyword(token) /\ token.text = <<")">>
          THEN LET popped == SubSeq(stack, 1, Len(stack) - 1)
                   field == FieldToken(PartAlias(resultField.alias, cur.partIx), FALSE, NoValue, -1)
                   closed == [cur EXCEPT !.chunks = @ \o <<Token("text", S_eq, -1), field>>]
               IN IF popped = <<>> THEN [ok |-> FALSE, stack |-> popped, lines |-> lines]
                  ELSE CalcLoop(Tail(tokens),
                                [popped EXCEPT ![Len(popped)].chunks = Append(@, field)],
                                Append(lines, closed), partIx, line)
          ELSE CalcLoop(Tail(tokens), [stack EXCEPT ![Len(stack)].chunks = Append(@, token)],
                        lines, partIx, line)

RECURSIVE MapToString(_)
\* chunks.map(this.stringify)
MapToString(chunks) ==
  IF chunks = <<>> THEN <<>> ELSE <<tokenToString(Head(chunks))>> \o MapToString(Tail(chunks))

Query_processCalculation(line) ==
  IF Len(line.chunks) < 3 \/ ~tokenIsKeyword(line.chunks[3]) \/ line.chunks[3].text # <<"$", "=">>
  THEN PResult("undefined", line, NoError)
  ELSE IF ~tokenIsField(line.chunks[1])
  THEN PResult("error", line,
               ParseError("Calculations must be formatted as '?field $= <calculation>", line.lineIx, line.lineIx))
  ELSE LET r == CalcLoop(Drop(line.chunks, 4), <<Part(0, line.lineIx)>>, <<>>, 1, line)
           root == [r.stack[1] EXCEPT !.chunks = @ \o <<Token("text", S_eq, -1), line.chunks[1]>>]
       IN IF ~r.ok THEN PResult("error", line, ParseError("Too many close parens", line.lineIx, line.lineIx))
          ELSE IF Len(r.stack) > 1
          THEN PResult("error", line, ParseError("Too few close parens", line.lineIx, line.lineIx))
          ELSE PResult("line",
                       [Line("calculation", Append(r.lines, root), -1, 0)
                          EXCEPT !.text = Join(MapToString(line.chunks))],
                       NoError)

\* line.directions[ix] = dir, the array growing with holes as needed
SetDirection(directions, ix, dir) ==
  [i \in 1..(IF Len(directions) > ix + 1 THEN Len(directions) ELSE ix + 1) |->
     IF i = ix + 1 THEN dir ELSE IF i <= Len(directions) THEN directions[i] ELSE UNDEF]

RECURSIVE OrdinalLoop(_, _, _, _)
\* the chunk loop of processOrdinal from chunk 3 on
OrdinalLoop(chunks, tokenIx, sortFieldCount, directions) ==
  IF tokenIx >= Len(chunks) THEN [ok |-> TRUE, count |-> sortFieldCount, directions |-> directions]
  ELSE LET token == chunks[tokenIx + 1]
           text == ToLowerCase(Trim(token.text))
       IN IF tokenIsField(token) THEN
            IF token.alias = UNDEF THEN [ok |-> FALSE, count |-> sortFieldCount, directions |-> directions]
            ELSE OrdinalLoop(chunks, tokenIx + 1, sortFieldCount + 1, directions)
          ELSE IF tokenIsText(token) /\ sortFieldCount > 0 THEN
            IF IndexOf(text, S_ascending) = 0
            THEN OrdinalLoop(chunks, tokenIx + 1, sortFieldCount,
                             SetDirection(directions, sortFieldCount - 1, S_ascending))
            ELSE IF IndexOf(text, S_descending) = 0
            THEN OrdinalLoop(chunks, tokenIx + 1, sortFieldCount,
                             SetDirection(directions, sortFieldCount - 1, S_descending))
            ELSE OrdinalLoop(chunks, tokenIx + 1, sortFieldCount, directions)
          ELSE OrdinalLoop(chunks, tokenIx + 1, sortFieldCount, directions)

\* astChunks is this.ast.chunks at the time of the call
Query_processOrdinal(parsedLine, astChunks) ==
  LET chunks == parsedLine.chunks
      kw == chunks[1]
      prevChunk == astChunks[Len(astChunks)]
      r == OrdinalLoop(chunks, 3, 0, <<>>)
      Err(msg) == PResult("error", parsedLine, ParseError(msg, -1, parsedLine.lineIx))
  IN IF Len(chunks) < 1 \/ ~tokenIsKeyword(kw) \/ kw.text # <<"#">>
     THEN PResult("undefined", parsedLine, NoError)
     ELSE IF astChunks = <<>> \/ ~tokenIsSource(prevChunk)
     THEN Err("Ordinal must immediately follow a source.")
     ELSE IF Len(chunks) < 3
     \* parseError(..., parsedLine.chunks[2]) reads token.lineIx of undefined
     THEN PResult("throw", parsedLine, NoError)
     ELSE IF ~tokenIsField(chunks[3])
     THEN Err("Ordinal requires a field to bind to ('?' or '?foo').")
     \* chunks[3]["text"].indexOf of a field chunk reads indexOf of undefined
     ELSE IF Len(chunks) > 3 /\ tokenIsField(chunks[4])
     THEN PResult("throw", parsedLine, NoError)
     ELSE IF Len(chunks) > 3 /\ IndexOf(chunks[4].text, S_by) # 1
     THEN Err("Ordinals are formatted as '# ? by ?... <dir>'")
     ELSE IF ~r.ok THEN Err("Ordinal sorting fields must be aliased to a query field.")
     ELSE IF r.count = 0 THEN Err("Ordinal requires at least one sorting field.")
     ELSE PResult("line",
                  [parsedLine EXCEPT !.type = "ordinal", !.alias = chunks[3].alias,
                                     !.directions = r.directions],
                  NoError)

Query_processSource(line) ==
  LET kw == line.chunks[1]
  IN [line EXCEPT !.type = "source",
                  !.negated = tokenIsText(kw) /\ kw.text = <<"!">>]

\* the body of the line loop of Query.parse for one line; acc is the state of
\* the loop: the AST chunks, the errors and whether an exception left parse
Query_parseStep(acc, rawLine, lineIx) ==
  With(Query_tokenize(rawLine), LAMBDA tokens :
    IF tokens = <<>> THEN [acc EXCEPT !.chunks = Append(@, BlankLine(lineIx, 0))]
    ELSE With(Query_parseLine(tokens, lineIx), LAMBDA p :
      IF p.kind = "error" THEN [acc EXCEPT !.errors = Append(@, p.err)]
      \* parsed.chunks[0] of undefined
      ELSE IF p.kind = "undefined" THEN [acc EXCEPT !.thrown = TRUE]
      ELSE IF tokenIsKeyword(p.line.chunks[1]) /\ p.line.chunks[1].text = <<";">>
      THEN [acc EXCEPT !.chunks = Append(@, [p.line EXCEPT !.type = "comment",
                                                          !.text = tokenToString(p.line)])]
      ELSE With3(Query_processAction(p.line), Query_processCalculation(p.line),
                 Query_processOrdinal(p.line, acc.chunks),
             LAMBDA a, c, o :
               With(IF a.kind # "undefined" THEN a
                    ELSE IF c.kind # "undefined" THEN c
                    ELSE IF o.kind # "undefined" THEN o
                    ELSE PResult("line", Query_processSource(p.line), NoError),
                 LAMBDA m :
                   IF m.kind = "throw" THEN [acc EXCEPT !.thrown = TRUE]
                   ELSE IF m.kind = "error" THEN [acc EXCEPT !.errors = Append(@, m.err)]
                   ELSE [acc EXCEPT !.chunks = Append(@, m.line)]))))

RECURSIVE Query_parseLines(_, _, _)
\* the line loop of Query.parse; an exception ends it
Query_parseLines(acc, lines, lineIx) ==
  IF lines = <<>> \/ acc.thrown THEN acc
  ELSE Query_parseLines(Query_parseStep(acc, Head(lines), lineIx), Tail(lines), lineIx + 1)

\* ---------------------------------------------------------------------------
\* The fact store the reifier reads (Api.ixer): the "view fingerprint" table in
\* index order, each row with its "fingerprint field" rows sorted by ix
\* ---------------------------------------------------------------------------
ViewFingerprints ==
  << [fingerprint |-> <<"a", " ", "?">>, view |-> <<"V1">>, fields |-> <<<<"F1">>>>],
     [fingerprint |-> <<"b", " ", "?", " ", "c", " ", "?">>, view |-> <<"V2">>,
      fields |-> <<<<"F2">>, <<"F3">>>>],
     [fingerprint |-> <<"d", " ", "?">>, view |-> <<"V3">>, fields |-> <<>>] >>

\* Api.ixer.findOne("view fingerprint", {fingerprint}): the row index, 0 when none
FindByFingerprint(fingerprint) ==
  LET hits == {i \in 1..Len(ViewFingerprints) : ViewFingerprints[i].fingerprint = fingerprint}
  IN IF hits = {} THEN 0 ELSE CHOOSE i \in hits : \A j \in hits : i <= j

\* Api.ixer.findOne("view fingerprint", {view}): the row index, 0 when none
FindByView(view) ==
  LET hits == {i \in 1..Len(ViewFingerprints) : ViewFingerprints[i].view = view}
  IN IF hits = {} THEN 0 ELSE CHOOSE i \in hits : \A j \in hits : i <= j

\* ---------------------------------------------------------------------------
\* Query IR
\* ---------------------------------------------------------------------------
EmptyMap == [k \in {} |-> UNDEF]
Put(map, k, v) == [x \in (DOMAIN map) \cup {k} |-> IF x = k THEN v ELSE map[x]]
\* map[key] of a JavaScript object: the key undefined reads the property "undefined"
Key(alias) == IF alias = UNDEF THEN S_undefined ELSE alias
Get(map, k) == IF Key(k) \in DOMAIN map THEN map[Key(k)] ELSE UNDEF

\* an unset IR (reified, failed or prev being undefined)
NoIR == [unset |-> TRUE]
IsSet(ir) == ir # NoIR

TRUE_ORDINAL == <<"<true>">>

\* aliasOrder is the insertion order of the keys of aliases (the order in
\* which `for(alias in aliases)` visits them)
QueryIR(id) ==
  [id |-> id, sources |-> <<>>, aliases |-> EmptyMap, aliasOrder |-> <<>>, variables |-> EmptyMap,
   actions |-> <<>>]

\* a fingerprint that keeps the text of the fields and the leading "! "
fingerprintSource_verbatim(ast) == Join(MapToString(ast.chunks))

fingerprintSource(ast) ==
  LET head == ast.chunks[1]
      strip == ast.chunks # <<>> /\ tokenIsText(head) /\ Len(head.text) >= 2
               /\ head.text[1] = "!" /\ head.text[2] = SP
      rest == IF strip THEN Tail(ast.chunks) ELSE ast.chunks
      piece(token) == IF tokenIsField(token) THEN <<"?">> ELSE tokenToString(token)
  IN (IF strip THEN Drop(head.text, 2) ELSE <<>>)
       \o Join([i \in 1..Len(rest) |-> piece(rest[i])])

\* getVariable(alias, ast, varId, fieldId); uuid is the number of identifiers
\* generated so far.  The result is the IR, the variable's id and the counter.
getVariable(alias, ast, varId0, fieldId, uuid) ==
  LET known == IF varId0 # UNDEF THEN varId0 ELSE Get(ast.aliases, alias)
      varId == IF known # UNDEF THEN known ELSE Uuid(uuid)
      uuid1 == IF known # UNDEF THEN uuid ELSE uuid + 1
      exists == varId \in DOMAIN ast.variables
      variable0 == IF exists THEN ast.variables[varId]
                   ELSE [selected |-> fieldId, alias |-> alias, value |-> NoValue,
                         ordinals |-> <<>>, bindings |-> <<>>]
      select == variable0.selected = UNDEF /\ alias # UNDEF /\ alias[1] # "_"
      variable == IF select THEN [variable0 EXCEPT !.selected = Uuid(uuid1)] ELSE variable0
      uuid2 == IF select THEN uuid1 + 1 ELSE uuid1
  IN [ast |-> [ast EXCEPT !.variables = Put(@, varId, variable),
                          !.aliases = IF alias # UNDEF THEN Put(@, alias, varId) ELSE @,
                          !.aliasOrder = IF alias # UNDEF /\ alias \notin DOMAIN ast.aliases
                                         THEN Append(@, alias) ELSE @],
      varId |-> varId, uuid |-> uuid2]

\* a reifier that never consults the previous alias table
PrevVarId_none(prev, alias) == UNDEF

\* prev && prev.aliases[alias]
PrevVarId(prev, alias) == IF IsSet(prev) THEN Get(prev.aliases, alias) ELSE UNDEF
\* varId && prev.variables[varId].selected
PrevSelected(prev, varId) == IF varId = UNDEF THEN UNDEF ELSE prev.variables[varId].selected

\* a reifier that gives every source the fresh id
SourceId_fresh(prev, ix, view, fresh) == fresh

\* the id of the source at position ix (0-based): the previous IR's source
\* at that position when it points at the same view, else the fresh id
SourceId(prev, ix, view, fresh) ==
  IF IsSet(prev) /\ ix < Len(prev.sources) /\ prev.sources[ix + 1].sourceView = view
  THEN prev.sources[ix + 1].source
  ELSE fresh

RECURSIVE SourceFields(_, _, _, _)
\* the chunk loop of a source line in Query.reify; st holds the IR, the source
\* under construction, the counter and whether a field had no mapping
SourceFields(chunks, fieldIxes, prev, st) ==
  IF chunks = <<>> THEN st
  ELSE IF ~tokenIsField(Head(chunks)) THEN SourceFields(Tail(chunks), fieldIxes, prev, st)
  ELSE IF fieldIxes = <<>> THEN [st EXCEPT !.missing = TRUE]
  ELSE With3(Head(chunks), fieldIxes[1], PrevVarId(prev, Head(chunks).alias),
         LAMBDA token, fieldId, varId :
           With(getVariable(token.alias, st.ir, varId, PrevSelected(prev, varId), st.uuid), LAMBDA g :
             SourceFields(Tail(chunks), Tail(fieldIxes), prev,
               [st EXCEPT !.ir = [g.ast EXCEPT
                                    !.variables[g.varId].value =
                                       IF token.value.t # "undefined" THEN token.value ELSE @,
                                    !.variables[g.varId].bindings =
                                       Append(@, [source |-> st.source.source, field |-> fieldId])],
                          !.uuid = g.uuid,
                          !.source.fields = Append(@, [field |-> fieldId, grouped |-> token.grouped,
                                                       alias |-> token.alias, value |-> token.value]),
                          !.source.chunked = @ \/ token.grouped])))

\* unsorted.splice(unsorted.indexOf(x), 1): an index of -1 removes the last entry
SpliceOut(unsorted, x) ==
  LET ix == ArrIndexOf(unsorted, x)
      at == IF ix = -1 THEN Len(unsorted) ELSE ix + 1
  IN IF unsorted = <<>> THEN unsorted
     ELSE SubSeq(unsorted, 1, at - 1) \o SubSeq(unsorted, at + 1, Len(unsorted))

\* the first field of the source with the alias, 0 when none
MatchField(fields, alias) ==
  LET hits == {i \in 1..Len(fields) : fields[i].alias = alias}
  IN IF hits = {} THEN 0 ELSE CHOOSE i \in hits : \A j \in hits : i <= j

RECURSIVE SortLoop(_, _, _, _)
\* the chunk loop of an ordinal line in Query.reify from chunk 3 on
SortLoop(line, tokenIx, fields, st) ==
  IF tokenIx >= Len(line.chunks) THEN st
  ELSE LET chunk == line.chunks[tokenIx + 1]
           m == MatchField(fields, chunk.alias)
           given == IF st.sortFieldIx < Len(line.directions) THEN line.directions[st.sortFieldIx + 1] ELSE UNDEF
           entry == [ix |-> st.sortFieldIx, field |-> fields[m].field,
                     direction |-> IF given # UNDEF THEN given ELSE S_ascending]
       IN IF ~tokenIsField(chunk) THEN SortLoop(line, tokenIx + 1, fields, st)
          ELSE IF m = 0
          THEN SortLoop(line, tokenIx + 1, fields,
                 [st EXCEPT !.errors = Append(@, ParseError("Ordinal alias does not match any aliased fields of the ordinated source.", -1, line.lineIx))])
          ELSE SortLoop(line, tokenIx + 1, fields,
                 [st EXCEPT !.sort = Append(@, entry), !.sortFieldIx = @ + 1,
                            !.unsorted = SpliceOut(@, fields[m].field)])

RECURSIVE RestSort(_, _)
\* the fields not named by the ordinal, ascending, with the next ranks
RestSort(unsorted, ix) ==
  IF unsorted = <<>> THEN <<>>
  ELSE <<[ix |-> ix, field |-> Head(unsorted), direction |-> S_ascending]>> \o RestSort(Tail(unsorted), ix + 1)

\* one iteration of LINE_LOOP; st holds the IR, the errors, the counter and
\* whether `break LINE_LOOP` was taken
Query_reifyLine(st, line, prev) ==
  IF tokenIsSource(line) THEN
    With(FindByFingerprint(fingerprintSource(line)), LAMBDA row :
      IF row = 0
      THEN [st EXCEPT !.errors = Append(@, ParseError("Fingerprint matches no known views.", line.lineIx, line.lineIx))]
      ELSE With(SourceFields(line.chunks, ViewFingerprints[row].fields, prev,
                  [ir |-> st.ir,
                   source |-> [source |-> SourceId(prev, Len(st.ir.sources), ViewFingerprints[row].view,
                                                   Uuid(st.uuid)),
                               sourceView |-> ViewFingerprints[row].view, fields |-> <<>>,
                               negated |-> line.negated, chunked |-> FALSE, hasSort |-> FALSE,
                               sort |-> <<>>, ordinal |-> UNDEF, lineIx |-> line.lineIx],
                   uuid |-> st.uuid + 1, missing |-> FALSE]),
             LAMBDA f :
               IF f.missing
               THEN [st EXCEPT !.ir = f.ir, !.uuid = f.uuid, !.stop = TRUE,
                               !.errors = Append(@, ParseError("Fingerprint is missing for field.", -1, line.lineIx))]
               ELSE [st EXCEPT !.ir = [f.ir EXCEPT !.sources = Append(@, f.source)], !.uuid = f.uuid]))
  ELSE IF tokenIsOrdinal(line) THEN
    IF st.ir.sources = <<>>
    THEN [st EXCEPT !.errors = Append(@, ParseError("Ordinals must follow a valid source.", line.lineIx, line.lineIx))]
    ELSE With2(st.ir.sources[Len(st.ir.sources)], PrevVarId(prev, line.alias), LAMBDA last, varId :
           With2(getVariable(line.alias, st.ir, varId, PrevSelected(prev, varId), st.uuid),
                 SortLoop(line, 3, last.fields,
                          [sort |-> <<>>, sortFieldIx |-> 0, errors |-> st.errors,
                           unsorted |-> [i \in 1..Len(last.fields) |-> last.fields[i].field]]),
             LAMBDA g, s :
               [st EXCEPT !.ir = [g.ast EXCEPT
                                    !.variables[g.varId].ordinals = Append(@, last.source),
                                    !.sources[Len(st.ir.sources)] =
                                       [last EXCEPT
                                          !.ordinal = IF line.alias # UNDEF THEN line.alias ELSE TRUE_ORDINAL,
                                          !.hasSort = TRUE,
                                          !.sort = s.sort \o RestSort(s.unsorted, s.sortFieldIx)]],
                          !.uuid = g.uuid, !.errors = s.errors]))
  ELSE IF tokenIsAction(line)
  THEN [st EXCEPT !.errors = Append(@, ParseError("@TODO: Add support for reifying actions", line.lineIx, line.lineIx))]
  ELSE st

RECURSIVE Query_reifyLines(_, _, _)
Query_reifyLines(st, chunks, prev) ==
  IF chunks = <<>> \/ st.stop THEN st
  ELSE Query_reifyLines(Query_reifyLine(st, Head(chunks), prev), Tail(chunks), prev)

RECURSIVE FlattenCalculations(_)
\* the lines of the AST with every calculation replaced by its parts
FlattenCalculations(chunks) ==
  IF chunks = <<>> THEN <<>>
  ELSE (IF tokenIsCalculation(Head(chunks)) THEN Head(chunks).chunks ELSE <<Head(chunks)>>)
         \o FlattenCalculations(Tail(chunks))

\* Query.reify on an instance q whose reified is unset; uuid is the counter
Query_reify(q, uuid) ==
  LET prev == IF IsSet(q.reified) THEN q.reified ELSE q.prev
      hasId == IsSet(prev) /\ prev.id # UNDEF
      start == [ir |-> QueryIR(IF hasId THEN prev.id ELSE Uuid(uuid)), errors |-> q.errors,
                uuid |-> IF hasId THEN uuid ELSE uuid + 1, stop |-> FALSE]
      Promote(st) ==
        IF st.errors # <<>>
        THEN [q |-> [q EXCEPT !.prev = prev, !.failed = st.ir, !.reified = NoIR, !.errors = st.errors],
              uuid |-> st.uuid]
        ELSE [q |-> [q EXCEPT !.prev = prev, !.reified = st.ir, !.id = st.ir.id], uuid |-> st.uuid]
  IN IF ~IsSet(q.ast) THEN [q |-> q, uuid |-> uuid]
     ELSE Promote(Query_reifyLines(start, FlattenCalculations(q.ast.chunks), prev))

\* ---------------------------------------------------------------------------
\* Query.unreify
\* ---------------------------------------------------------------------------
RECURSIVE UnreifyFields(_, _, _)
\* the structure loop of unreify: a text chunk for each non-empty structure
\* and the next field of the source after it
UnreifyFields(structures, fields, fieldIx) ==
  IF structures = <<>> THEN [ok |-> TRUE, chunks |-> <<>>]
  ELSE LET text == Head(structures)
           field == fields[fieldIx + 1]
           r == UnreifyFields(Tail(structures), fields, fieldIx + 1)
       IN \* source.fields[fieldIx] of a missing field: field.alias of undefined
          IF fieldIx >= Len(fields) THEN [ok |-> FALSE, chunks |-> <<>>]
          ELSE [ok |-> r.ok,
                chunks |-> (IF text # <<>> THEN <<Token("text", text, -1)>> ELSE <<>>)
                             \o <<FieldToken(field.alias, field.grouped, field.value, -1)>> \o r.chunks]

\* the field of the source with the id (the last one when several have it)
FieldById(fields, fieldId) ==
  fields[CHOOSE i \in 1..Len(fields) :
           fields[i].field = fieldId /\ \A j \in 1..Len(fields) : fields[j].field = fieldId => j <= i]

RECURSIVE UnreifySort(_, _)
UnreifySort(sort, fields) ==
  IF sort = <<>> THEN <<>>
  ELSE LET field == FieldById(fields, Head(sort).field)
       IN <<FieldToken(field.alias, field.grouped, field.value, -1),
            Token("text", <<SP>> \o Head(sort).direction \o <<SP>>, -1)>>
            \o UnreifySort(Tail(sort), fields)

RECURSIVE UnreifySources(_, _)
\* the source loop of unreify; chunks are the lines emitted so far
UnreifySources(sources, chunks) ==
  IF sources = <<>> THEN [ok |-> TRUE, chunks |-> chunks]
  ELSE LET source == Head(sources)
           row == FindByView(source.sourceView)
           structures == Split(ViewFingerprints[row].fingerprint, "?")
           tail == structures[Len(structures)]
           f == UnreifyFields(SubSeq(structures, 1, Len(structures) - 1), source.fields, 0)
           line == [Line("source",
                         f.chunks \o (IF tail # <<>> THEN <<Token("text", tail, -1)>> ELSE <<>>),
                         Len(chunks), 0)
                      EXCEPT !.negated = source.negated]
           alias == IF source.ordinal # TRUE_ORDINAL THEN source.ordinal ELSE UNDEF
           head == Token("text", <<"#", SP, "?">> \o OrEmpty(alias) \o <<SP>> \o S_by \o <<SP>>, -1)
           ordinal == [Line("ordinal", <<head>> \o UnreifySort(source.sort, source.fields),
                            Len(chunks) + 1, 0)
                         EXCEPT !.alias = alias,
                                !.directions = [i \in 1..Len(source.sort) |-> source.sort[i].direction]]
       IN IF row = 0 \/ ~f.ok THEN [ok |-> FALSE, chunks |-> chunks]
          ELSE UnreifySources(Tail(sources),
                 chunks \o <<line>> \o (IF source.ordinal # UNDEF THEN <<ordinal>> ELSE <<>>))

QueryAST(chunks) == Line("query", chunks, -1, 0)

\* Query.unreify: the instance afterwards and whether an exception left it
Query_unreify(q) ==
  IF ~IsSet(q.reified) THEN [q |-> q, thrown |-> FALSE]
  ELSE With(UnreifySources(q.reified.sources, <<>>), LAMBDA r :
         With(QueryAST(r.chunks), LAMBDA ast :
           IF ~r.ok THEN [q |-> [q EXCEPT !.ast = ast], thrown |-> TRUE]
           ELSE [q |-> [q EXCEPT !.ast = ast, !.raw = IF q.errors = <<>> THEN tokenToString(ast) ELSE @],
                 thrown |-> FALSE]))

\* ---------------------------------------------------------------------------
\* Query instances
\* ---------------------------------------------------------------------------
\* new Query()
NewQuery ==
  [raw |-> UNDEF, ast |-> NoIR, reified |-> NoIR, failed |-> NoIR, errors |-> <<>>, id |-> UNDEF,
   prev |-> NoIR]

\* a parser without the memo test
SameRaw_never(inst, raw) == FALSE

\* raw === this.raw, the memo test of Query.parse and Ui.parse
SameRaw(inst, raw) == raw = inst.raw

\* Query.parse that keeps as previous IR only the IR of the call before
Query_parse_forget(q, raw, uuid) ==
  IF SameRaw(q, raw) THEN [q |-> q, uuid |-> uuid, ret |-> "this"]
  ELSE With(Query_parseLines([chunks |-> <<>>, errors |-> <<>>, thrown |-> FALSE], Split(raw, NL), 0),
         LAMBDA acc :
           With([q EXCEPT !.errors = acc.errors, !.raw = raw, !.ast = QueryAST(acc.chunks),
                          !.prev = q.reified, !.reified = NoIR],
             LAMBDA parsed :
               IF acc.thrown THEN [q |-> parsed, uuid |-> uuid, ret |-> "throw"]
               ELSE IF acc.errors # <<>> THEN [q |-> parsed, uuid |-> uuid, ret |-> "this"]
               ELSE With(Query_reify(parsed, uuid), LAMBDA r :
                      [q |-> r.q, uuid |-> r.uuid, ret |-> "this"])))

\* Query.parse(raw): the instance afterwards, the counter, and how the call
\* ended: ret is "this" or "throw"
Query_parse(q, raw, uuid) ==
  IF SameRaw(q, raw) THEN [q |-> q, uuid |-> uuid, ret |-> "this"]
  ELSE With(Query_parseLines([chunks |-> <<>>, errors |-> <<>>, thrown |-> FALSE], Split(raw, NL), 0),
         LAMBDA acc :
           With([q EXCEPT !.errors = acc.errors, !.raw = raw, !.ast = QueryAST(acc.chunks),
                          !.prev = IF IsSet(q.reified) THEN q.reified ELSE q.prev,
                          !.reified = NoIR],
             LAMBDA parsed :
               IF acc.thrown THEN [q |-> parsed, uuid |-> uuid, ret |-> "throw"]
               ELSE IF acc.errors # <<>> THEN [q |-> parsed, uuid |-> uuid, ret |-> "this"]
               ELSE With(Query_reify(parsed, uuid), LAMBDA r :
                      [q |-> r.q, uuid |-> r.uuid, ret |-> "this"])))

\* Query.loadFromAST(ast) without a view id; ast may be NoIR (undefined)
Query_loadFromAST(q, ast, uuid) ==
  IF ~IsSet(ast)
  THEN [q |-> [q EXCEPT !.raw = UNDEF, !.prev = NoIR, !.reified = NoIR, !.errors = <<>>],
        uuid |-> uuid, ret |-> "undefined"]
  ELSE With(Query_reify([q EXCEPT !.prev = NoIR, !.reified = NoIR, !.errors = <<>>, !.ast = ast,
                                  !.raw = tokenToString(ast)], uuid),
         LAMBDA r : [q |-> r.q, uuid |-> r.uuid, ret |-> "this"])

\* ---------------------------------------------------------------------------
\* Ui parser
\* ---------------------------------------------------------------------------
U_TOKENS == <<<<";">>, <<":">>, <<"@">>, <<"~">>, <<"-">>, <<SP>>, <<TAB>>, <<BQ>>, <<"?">>>>
WS == <<<<SP>>, <<TAB>>>>

Ui_tokenize(line) == makeTokenizer(U_TOKENS, line)

\* the attribute branch of Ui.parse: the line, or the error that skips it
Ui_parseAttribute(line, tokens, tokensLength) ==
  With(consumeUntil(<<<<":">>>>, consumeWhile(WS, tokens).rest), LAMBDA p :
    IF p.ended
    THEN [ok |-> FALSE, line |-> line,
          err |-> ParseError("Attributes are formatted as '- <property>: <value or field>'.", -1, line.lineIx)]
    ELSE With(consumeWhile(WS, Tail(p.rest)).rest, LAMBDA t3 :
      With(parseField(t3, tokensLength - Len(t3), line.lineIx), LAMBDA f :
        IF f.kind = "none"
        THEN [ok |-> FALSE, line |-> line,
              err |-> ParseError("Value of attribute must be a field (either ?foo or a quoted literal)", -1, line.lineIx)]
        ELSE IF f.kind = "error" THEN [ok |-> FALSE, line |-> line, err |-> f.err]
        ELSE IF f.rest # <<>>
        THEN [ok |-> FALSE, line |-> line, err |-> ParseError("Extraneous tokens after value.", -1, line.lineIx)]
        ELSE [ok |-> TRUE,
              line |-> [line EXCEPT !.property = p.res, !.value = f.field,
                                    !.static = f.field.value.t # "undefined"],
              err |-> NoError])))

\* the event branch of Ui.parse
Ui_parseEvent(line, tokens, tokensLength) ==
  With(consumeUntil(<<<<":">>>>, consumeWhile(WS, tokens).rest), LAMBDA e :
    With(consumeWhile(WS, IF e.rest = <<>> THEN <<>> ELSE Tail(e.rest)).rest, LAMBDA t3 :
      IF t3 = <<>> THEN [ok |-> TRUE, line |-> [line EXCEPT !.event = e.res], err |-> NoError]
      ELSE With(parseField(t3, tokensLength - Len(t3), line.lineIx), LAMBDA f :
        IF f.kind = "none"
        THEN [ok |-> FALSE, line |-> line,
              err |-> ParseError("Value of attribute must be a field (either ?foo or a quoted literal)", -1, line.lineIx)]
        ELSE IF f.kind = "error" THEN [ok |-> FALSE, line |-> line, err |-> f.err]
        ELSE IF f.field.alias = UNDEF
        THEN [ok |-> FALSE, line |-> line,
              err |-> ParseError("Event keys must be aliased to a bound field.", -1, line.lineIx)]
        ELSE IF f.rest # <<>>
        THEN [ok |-> FALSE, line |-> line, err |-> ParseError("Extraneous tokens after value.", -1, line.lineIx)]
        ELSE [ok |-> TRUE, line |-> [line EXCEPT !.event = e.res, !.hasKey = TRUE, !.key = f.field],
              err |-> NoError])))

\* the element branch of Ui.parse
Ui_parseElement(line, head, tokens) ==
  With(consumeUntil(<<<<";">>>>, tokens), LAMBDA c :
    With(IF c.rest # <<>> THEN Tail(c.rest) ELSE c.rest, LAMBDA rest :
      [line EXCEPT !.tag = head, !.classes = c.res,
                   !.name = IF rest # <<>> THEN Trim(Join(rest)) ELSE UNDEF]))

LineType(head) ==
  CASE head = <<";">> -> "comment"
    [] head = <<"-">> -> "attribute"
    [] head = <<"~">> -> "binding"
    [] head = <<"@">> -> "event"
    [] OTHER -> "element"

\* the body of the line loop of Ui.parse for one line; acc holds the AST
\* chunks and the errors
Ui_parseStep(acc, rawLine, lineIx) ==
  With(Ui_tokenize(rawLine), LAMBDA all :
    With(consumeWhile(WS, all).rest, LAMBDA rest :
      IF rest = <<>> THEN [acc EXCEPT !.chunks = Append(@, BlankLine(lineIx, Len(all) - Len(rest)))]
      ELSE With3(UiLine(LineType(rest[1]), lineIx, Len(all) - Len(rest)), Tail(rest),
                 acc.chunks[Len(acc.chunks)],
             LAMBDA line, tokens, prevLine :
               IF tokenIsComment(line) THEN [acc EXCEPT !.chunks = Append(@, [line EXCEPT !.text = Join(tokens)])]
               ELSE IF tokenIsAttribute(line) THEN
                 With(Ui_parseAttribute(line, tokens, Len(all)), LAMBDA a :
                   IF a.ok THEN [acc EXCEPT !.chunks = Append(@, a.line)]
                   ELSE [acc EXCEPT !.errors = Append(@, a.err)])
               ELSE IF tokenIsBinding(line) THEN
                 With(Join(consumeWhile(WS, tokens).rest), LAMBDA text :
                   IF acc.chunks = <<>> \/ tokenIsElement(prevLine)
                   THEN [acc EXCEPT !.chunks = Append(@, [line EXCEPT !.text = text])]
                   ELSE IF tokenIsBinding(prevLine)
                   THEN [acc EXCEPT !.chunks[Len(acc.chunks)].text = @ \o <<NL>> \o text]
                   ELSE [acc EXCEPT !.errors = Append(@, ParseError("Binding must immediately follow an element or a binding.", lineIx, lineIx))])
               ELSE IF tokenIsEvent(line) THEN
                 With(Ui_parseEvent(line, tokens, Len(all)), LAMBDA e :
                   IF e.ok THEN [acc EXCEPT !.chunks = Append(@, e.line)]
                   ELSE [acc EXCEPT !.errors = Append(@, e.err)])
               ELSE [acc EXCEPT !.chunks = Append(@, Ui_parseElement(line, rest[1], tokens))])))

RECURSIVE Ui_parseLines(_, _, _)
Ui_parseLines(acc, lines, lineIx) ==
  IF lines = <<>> THEN acc
  ELSE Ui_parseLines(Ui_parseStep(acc, Head(lines), lineIx), Tail(lines), lineIx + 1)

\* ---------------------------------------------------------------------------
\* Ui IR
\* ---------------------------------------------------------------------------
ElementIR(id, tag, parent, ix) ==
  [element |-> id, tag |-> tag, parent |-> parent, ix |-> ix, name |-> UNDEF,
   attributes |-> EmptyMap, boundAttributes |-> EmptyMap, events |-> <<>>, boundEvents |-> EmptyMap,
   boundView |-> UNDEF, hasBindings |-> FALSE, bindings |-> EmptyMap]

\* a literal value used as an identifier or an object key
IdOf(value) == value.s

\* the outermost-first scan a wrong resolution order would make
RECURSIVE getScopedBinding_outermost(_, _, _)
getScopedBinding_outermost(alias, ancestors, boundViews) ==
  IF ancestors = <<>> THEN [kind |-> "undefined", field |-> UNDEF]
  ELSE LET parent == Head(ancestors)
           scope == boundViews[parent.boundView]
           varId == Get(scope.reified.aliases, alias)
           variable == scope.reified.variables[varId]
       IN IF parent.boundView = UNDEF
          THEN getScopedBinding_outermost(alias, Tail(ancestors), boundViews)
          ELSE IF varId = UNDEF THEN getScopedBinding_outermost(alias, Tail(ancestors), boundViews)
          ELSE IF variable.selected = UNDEF THEN [kind |-> "throw", field |-> UNDEF]
          ELSE [kind |-> "value", field |-> variable.selected]

RECURSIVE getScopedBinding(_, _, _)
\* ancestors are the element records, innermost last; kind is "value",
\* "undefined" (no scope defines the alias) or "throw"
getScopedBinding(alias, ancestors, boundViews) ==
  IF ancestors = <<>> THEN [kind |-> "undefined", field |-> UNDEF]
  ELSE LET parent == ancestors[Len(ancestors)]
           outer == SubSeq(ancestors, 1, Len(ancestors) - 1)
           scope == boundViews[parent.boundView]
           varId == Get(scope.reified.aliases, alias)
           variable == scope.reified.variables[varId]
       IN IF parent.boundView = UNDEF THEN getScopedBinding(alias, outer, boundViews)
          ELSE IF varId = UNDEF THEN getScopedBinding(alias, outer, boundViews)
          ELSE IF variable.selected = UNDEF THEN [kind |-> "throw", field |-> UNDEF]
          ELSE [kind |-> "value", field |-> variable.selected]

\* the element an index of the ancestor stack stands for: 0 is the root
ElemAt(st, ix) == IF ix = 0 THEN st.root ELSE st.elements[ix]
SetElem(st, ix, elem) ==
  IF ix = 0 THEN [st EXCEPT !.root = elem] ELSE [st EXCEPT !.elements[ix] = elem]
Ancestors(st, ixes) == [i \in 1..Len(ixes) |-> ElemAt(st, ixes[i])]

RECURSIVE PopAncestors(_, _, _, _)
\* the while loop of Ui.reify: the stack afterwards and parentElem (-1 when
\* the stack was empty from the start)
PopAncestors(st, ancestors, lineIndent, examined) ==
  IF ancestors = <<>> THEN [ancestors |-> ancestors, parent |-> examined]
  ELSE LET top == ancestors[Len(ancestors)]
       IN IF st.indent[ElemAt(st, top).element] < lineIndent
          THEN [ancestors |-> ancestors, parent |-> top]
          ELSE PopAncestors(st, SubSeq(ancestors, 1, Len(ancestors) - 1), lineIndent, top)

\* what getScopedBinding is given, for the record of resolutions: for each
\* ancestor whether it has a bound query, whether that query defines the
\* alias, and the selected field of the alias there
ScopeChain(alias, ancestors, boundViews) ==
  [i \in 1..Len(ancestors) |->
     LET bound == ancestors[i].boundView # UNDEF
         aliases == boundViews[ancestors[i].boundView].reified.aliases
         defines == bound /\ Key(alias) \in DOMAIN aliases
     IN [element |-> ancestors[i].element, bound |-> bound, defines |-> defines,
         selected |-> IF defines
                      THEN boundViews[ancestors[i].boundView].reified.variables[aliases[Key(alias)]].selected
                      ELSE UNDEF]]

Resolution(caller, alias, ancestors, boundViews, r) ==
  [caller |-> caller, alias |-> alias, chain |-> ScopeChain(alias, ancestors, boundViews),
   kind |-> r.kind, field |-> r.field]

RECURSIVE JoinAliases(_, _, _, _)
\* the alias loop of a binding line: st.joined collects joinedFields
JoinAliases(st, order, query, outer) ==
  IF order = <<>> \/ st.thrown THEN st
  ELSE LET alias == Head(order)
           r == getScopedBinding(alias, outer, st.boundQueries)
           selected == query.reified.variables[query.reified.aliases[alias]].selected
           logged == [st EXCEPT !.log = Append(@, Resolution("binding", alias, outer, st.boundQueries, r))]
       IN IF r.kind = "throw" THEN [logged EXCEPT !.thrown = TRUE]
          ELSE IF r.kind = "undefined" THEN JoinAliases(logged, Tail(order), query, outer)
          ELSE IF selected = UNDEF
          THEN JoinAliases([logged EXCEPT !.errors = Append(@, ParseError("Cannot join nested views on unselected alias", -1, st.lineIx))],
                           Tail(order), query, outer)
          ELSE JoinAliases([logged EXCEPT !.joined = Put(@, selected, r.field), !.scopeJoined = TRUE],
                           Tail(order), query, outer)

\* the element branch with a generated id for every element
Ui_reifyElement_fresh(st, line, prev, ancestors, parent) ==
  LET at == Len(st.elements)
      elemId == Uuid(st.uuid)
      parentId == ElemAt(st, parent).element
      elem == [ElementIR(elemId, line.tag, parentId, st.childCount[parentId])
                 EXCEPT !.attributes = IF line.classes # UNDEF /\ line.classes # <<>>
                                       THEN Put(@, <<"c">>, StrValue(line.classes)) ELSE @,
                        !.name = IF line.name # UNDEF /\ line.name # <<>> THEN line.name ELSE @]
  IN IF parent = -1 THEN [st EXCEPT !.thrown = TRUE]
     ELSE [st EXCEPT !.uuid = @ + 1,
                     !.childCount = Put(Put(@, parentId, @[parentId] + 1), elemId, 0),
                     !.indent = Put(@, elemId, line.indent),
                     !.ancestors = Append(ancestors, at + 1),
                     !.elements = Append(@, elem)]

\* the element branch of the line loop
Ui_reifyElement(st, line, prev, ancestors, parent) ==
  LET at == Len(st.elements)
      reuse == IsSet(prev) /\ at < Len(prev.elements)
      elemId == IF reuse THEN prev.elements[at + 1].element ELSE Uuid(st.uuid)
      parentId == ElemAt(st, parent).element
      elem == [ElementIR(elemId, line.tag, parentId, st.childCount[parentId])
                 EXCEPT !.attributes = IF line.classes # UNDEF /\ line.classes # <<>>
                                       THEN Put(@, <<"c">>, StrValue(line.classes)) ELSE @,
                        !.name = IF line.name # UNDEF /\ line.name # <<>> THEN line.name ELSE @]
  IN \* childCount[parentElem.element] of undefined
     IF parent = -1 THEN [st EXCEPT !.thrown = TRUE]
     ELSE [st EXCEPT !.uuid = IF reuse THEN @ ELSE @ + 1,
                     !.childCount = Put(Put(@, parentId, @[parentId] + 1), elemId, 0),
                     !.indent = Put(@, elemId, line.indent),
                     !.ancestors = Append(ancestors, at + 1),
                     !.elements = Append(@, elem)]

\* the binding branch of the line loop
Ui_reifyBinding(st, line, ancestors, parent) ==
  IF parent = -1
  THEN [st EXCEPT !.errors = Append(@, ParseError("Bindings must follow an element.", line.lineIx, st.lineIx))]
  ELSE With(Query_parse(NewQuery, line.text, st.uuid), LAMBDA p :
    IF p.ret = "throw" THEN [st EXCEPT !.thrown = TRUE, !.uuid = p.uuid]
    ELSE With([SetElem(st, parent, [ElemAt(st, parent) EXCEPT !.boundView = p.q.id])
                 EXCEPT !.uuid = p.uuid,
                        !.boundQueries = Put(@, Key(p.q.id), p.q),
                        !.joined = EmptyMap, !.scopeJoined = FALSE],
           LAMBDA bound :
             \* query.reified.aliases of undefined
             IF ~IsSet(p.q.reified) THEN [bound EXCEPT !.thrown = TRUE]
             ELSE With(JoinAliases(bound, p.q.reified.aliasOrder, p.q,
                                   Ancestors(bound, SubSeq(ancestors, 1, Len(ancestors) - 1))),
                    LAMBDA j :
                      IF j.scopeJoined
                      THEN SetElem(j, parent, [ElemAt(j, parent) EXCEPT !.hasBindings = TRUE,
                                                                        !.bindings = j.joined])
                      ELSE j)))

\* the attribute branch of the line loop
Ui_reifyAttribute(st, line, ancestors, parent) ==
  LET parentElem == ElemAt(st, parent)
      value == line.value.value
      old == parentElem.element
      new == IdOf(value)
      r == getScopedBinding(line.value.alias, Ancestors(st, ancestors), st.boundQueries)
      logged == [st EXCEPT !.log = Append(@, Resolution("attribute", line.value.alias,
                                                     Ancestors(st, ancestors), st.boundQueries, r))]
      set == SetElem(logged, parent,
                     [parentElem EXCEPT !.boundAttributes = Put(@, line.property, r.field)])
  IN IF parent = -1
     THEN [st EXCEPT !.errors = Append(@, ParseError("Attributes must follow an element.", line.lineIx, st.lineIx))]
     ELSE IF line.static THEN
       IF line.property = S_parent
       THEN SetElem(st, parent, [parentElem EXCEPT !.parent = IdOf(value)])
       ELSE IF line.property = S_id THEN
         IF st.childCount[old] # 0 THEN [st EXCEPT !.thrown = TRUE]
         ELSE [SetElem(st, parent, [parentElem EXCEPT !.element = new])
                 EXCEPT !.indent = Put(@, new, st.indent[old]),
                        !.childCount = Put(@, new, st.childCount[old])]
       ELSE SetElem(st, parent, [parentElem EXCEPT !.attributes = Put(@, line.property, value)])
     ELSE IF r.kind = "throw" THEN [logged EXCEPT !.thrown = TRUE]
     ELSE IF r.kind = "undefined"
     THEN [set EXCEPT !.errors = Append(@, ParseError("Could not resolve alias for bound attribute", -1, st.lineIx))]
     ELSE set

\* the event branch of the line loop
Ui_reifyEvent(st, line, ancestors, parent) ==
  LET parentElem == ElemAt(st, parent)
      r == getScopedBinding(line.key.alias, Ancestors(st, ancestors), st.boundQueries)
      logged == [st EXCEPT !.log = Append(@, Resolution("event", line.key.alias,
                                                     Ancestors(st, ancestors), st.boundQueries, r))]
      set == SetElem(logged, parent, [parentElem EXCEPT !.boundEvents = Put(@, line.event, r.field)])
  IN \* parentElem.boundEvents / parentElem.events of undefined
     IF parent = -1 THEN [st EXCEPT !.thrown = TRUE]
     ELSE IF ~line.hasKey
     THEN SetElem(st, parent, [parentElem EXCEPT !.events = Append(@, line.event)])
     ELSE IF r.kind = "throw" THEN [logged EXCEPT !.thrown = TRUE]
     ELSE IF r.kind = "undefined"
     THEN [set EXCEPT !.errors = Append(@, ParseError("Could not resolve alias for bound event", -1, st.lineIx))]
     ELSE set

\* one iteration of the line loop of Ui.reify
Ui_reifyLine(st, line, prev) ==
  IF tokenIsComment(line) \/ tokenIsText(line) THEN st
  ELSE With(PopAncestors(st, st.ancestors, line.indent, -1), LAMBDA p :
    With([st EXCEPT !.ancestors = p.ancestors], LAMBDA popped :
      IF tokenIsElement(line) THEN Ui_reifyElement(popped, line, prev, p.ancestors, p.parent)
      ELSE IF tokenIsBinding(line) THEN Ui_reifyBinding(popped, line, p.ancestors, p.parent)
      ELSE IF tokenIsAttribute(line) THEN Ui_reifyAttribute(popped, line, p.ancestors, p.parent)
      ELSE IF tokenIsEvent(line) THEN Ui_reifyEvent(popped, line, p.ancestors, p.parent)
      ELSE popped))

RECURSIVE Ui_reifyLines(_, _, _)
\* the line loop of Ui.reify; an exception ends it
Ui_reifyLines(st, chunks, prev) ==
  IF chunks = <<>> \/ st.thrown THEN st
  ELSE Ui_reifyLines(Ui_reifyLine(st, Head(chunks), prev), Tail(chunks), prev)

UiIR(st) == [elements |-> st.elements, root |-> st.root, boundQueries |-> st.boundQueries]

\* Ui.reify on an instance whose reified is unset; lineIx is this.lineIx
Ui_reify(ui, uuid, lineIx) ==
  LET prev == IF IsSet(ui.reified) THEN ui.reified ELSE ui.prev
      rootId == IF IsSet(prev) THEN prev.root.element ELSE Uuid(uuid)
      start == [elements |-> <<>>, root |-> ElementIR(rootId, S_div, UNDEF, 0),
                boundQueries |-> EmptyMap,
                indent |-> Put(EmptyMap, rootId, -1), childCount |-> Put(EmptyMap, rootId, 0),
                ancestors |-> <<0>>, errors |-> ui.errors, lineIx |-> lineIx,
                uuid |-> IF IsSet(prev) THEN uuid ELSE uuid + 1,
                thrown |-> FALSE, log |-> <<>>, joined |-> EmptyMap, scopeJoined |-> FALSE]
      Promote(st, based, ir) ==
        \* an exception leaves this.reified holding the IR built so far
        IF st.thrown
        THEN [ui |-> [based EXCEPT !.reified = ir], uuid |-> st.uuid, thrown |-> TRUE, log |-> st.log]
        ELSE IF st.errors # <<>>
        THEN [ui |-> [based EXCEPT !.failed = ir, !.reified = NoIR], uuid |-> st.uuid,
              thrown |-> FALSE, log |-> st.log]
        ELSE [ui |-> [based EXCEPT !.reified = ir, !.id = rootId], uuid |-> st.uuid,
              thrown |-> FALSE, log |-> st.log]
      Lines(st) == Promote(st, [ui EXCEPT !.prev = prev, !.errors = st.errors], UiIR(st))
  IN IF ~IsSet(ui.ast) THEN [ui |-> ui, uuid |-> uuid, thrown |-> FALSE, log |-> <<>>]
     ELSE Lines(Ui_reifyLines(start, ui.ast.chunks, prev))

\* ---------------------------------------------------------------------------
\* Ui instances
\* ---------------------------------------------------------------------------
\* new Ui()
NewUi ==
  [raw |-> UNDEF, ast |-> NoIR, reified |-> NoIR, failed |-> NoIR, errors |-> <<>>, id |-> UNDEF,
   prev |-> NoIR]

UiAST(chunks) == Line("ui", chunks, -1, 0)

\* Ui.parse(raw): ret is "this" (the memoized return), "undefined" (the method
\* ends without a return statement) or "throw"
Ui_parse(ui, raw, uuid) ==
  IF SameRaw(ui, raw) THEN [ui |-> ui, uuid |-> uuid, ret |-> "this", log |-> <<>>]
  ELSE With(Split(raw, NL), LAMBDA lines :
    With(Ui_parseLines([chunks |-> <<>>, errors |-> <<>>], lines, 0), LAMBDA acc :
      With([ui EXCEPT !.errors = acc.errors, !.raw = raw, !.ast = UiAST(acc.chunks),
                      !.prev = IF IsSet(ui.reified) THEN ui.reified ELSE ui.prev,
                      !.reified = NoIR],
        LAMBDA parsed :
          IF acc.errors # <<>> THEN [ui |-> parsed, uuid |-> uuid, ret |-> "undefined", log |-> <<>>]
          ELSE With(Ui_reify(parsed, uuid, Len(lines) - 1), LAMBDA r :
                 [ui |-> r.ui, uuid |-> r.uuid, ret |-> IF r.thrown THEN "throw" ELSE "undefined",
                  log |-> r.log]))))

\* Ui.loadFromAST(ast) without an element id; ast may be NoIR (undefined)
Ui_loadFromAST(ui, ast, uuid) ==
  IF ~IsSet(ast)
  THEN [ui |-> [ui EXCEPT !.raw = UNDEF, !.prev = NoIR, !.reified = NoIR, !.errors = <<>>],
        uuid |-> uuid, ret |-> "undefined", log |-> <<>>]
  ELSE With(Ui_reify([ui EXCEPT !.prev = NoIR, !.reified = NoIR, !.errors = <<>>, !.ast = ast,
                                !.raw = tokenToString(ast)], uuid, -1),
         LAMBDA r : [ui |-> r.ui, uuid |-> r.uuid, ret |-> IF r.thrown THEN "throw" ELSE "this",
                     log |-> r.log])

\* ---------------------------------------------------------------------------
\* Ui.unreify: the AST and the text regenerated from the IR
\* ---------------------------------------------------------------------------
\* Ui.unreify() on an instance: thrown tells whether it ended in an exception.
\* The keys of an attribute map are visited in one fixed order; the loop over
\* the elements emits element, binding, static and bound attribute lines and
\* has no statement that reads elem.events or elem.boundEvents.
Ui_unreify(ui) ==
  IF ~IsSet(ui.reified) THEN [ui |-> ui, thrown |-> FALSE]
  ELSE
    LET ir == ui.reified
        rootId == ir.root.element
        \* the value of a sum with an undefined operand
        NaN == -999
        Add2(n) == IF n = NaN THEN NaN ELSE n + 2
        \* Api.get.name(fieldId): no fact of the store names a field
        Api_get_name(fieldId) == UNDEF
        RECURSIVE ChildMap(_, _)
        ChildMap(map, elems) ==
          IF elems = <<>> THEN map
          ELSE LET e == Head(elems)
                   p == Key(e.parent)
                   m1 == IF p \in DOMAIN map THEN map ELSE Put(map, p, <<>>)
                   m2 == Put(m1, p, Append(m1[p], e.element))
               IN ChildMap(Put(m2, e.element, <<>>), Tail(elems))
        \* elemMap[id]: the last element of that id, else the root
        Last(id) == {i \in 1..Len(ir.elements) :
                       /\ ir.elements[i].element = id
                       /\ \A j \in (i + 1)..Len(ir.elements) : ir.elements[j].element # id}
        IsRoot(id) == Last(id) = {}
        ElemOf(id) == IF IsRoot(id) THEN ir.root ELSE ir.elements[CHOOSE i \in Last(id) : TRUE]
        RECURSIVE unravel(_, _, _)
        RECURSIVE unravelAll(_, _, _)
        \* unravel(cur, tangle); a recursion deeper than the number of elements
        \* never returns and ends in a RangeError
        unravel(cur, tangle, depth) ==
          IF depth > Len(ir.elements) + 1 THEN [over |-> TRUE, ids |-> <<>>]
          ELSE With(unravelAll(tangle[cur], tangle, depth + 1), LAMBDA r :
                 [over |-> r.over, ids |-> <<cur>> \o r.ids])
        unravelAll(children, tangle, depth) ==
          IF children = <<>> THEN [over |-> FALSE, ids |-> <<>>]
          ELSE With2(unravel(Head(children), tangle, depth), unravelAll(Tail(children), tangle, depth),
                 LAMBDA a, b : [over |-> a.over \/ b.over, ids |-> a.ids \o b.ids])
        RECURSIVE Enum(_)
        Enum(S) == IF S = {} THEN <<>>
                   ELSE LET x == CHOOSE y \in S : TRUE IN <<x>> \o Enum(S \ {x})
        RECURSIVE CopyAliases(_, _, _)
        CopyAliases(aliases, bindings, fieldIds) ==
          IF fieldIds = <<>> THEN aliases
          ELSE CopyAliases(Put(aliases, Head(fieldIds), Get(aliases, bindings[Head(fieldIds)])),
                           bindings, Tail(fieldIds))
        RECURSIVE Static(_, _, _, _)
        \* the loop over elem.attributes: st.chunks[at] is elemAST, at = 0 for the root
        Static(st, elem, props, at) ==
          IF props = <<>> THEN st
          ELSE LET property == Head(props)
                   value == elem.attributes[property]
               IN IF property = <<"c">> /\ at # 0
                  THEN Static([st EXCEPT !.chunks[at].classes = value.s], elem, Tail(props), at)
                  ELSE Static([st EXCEPT !.chunks = Append(@,
                                 [UiLine("attribute", Len(st.chunks), Add2(st.indent))
                                    EXCEPT !.property = property, !.static = TRUE,
                                           !.value = FieldToken(UNDEF, FALSE, value, -1)])],
                              elem, Tail(props), at)
        Suffix(ix) == IF ix = 0 THEN <<>> ELSE <<"-", <<"0", "1", "2", "3", "4", "5", "6", "7", "8", "9">>[ix + 1]>>
        RECURSIVE Unused(_, _, _)
        \* the do-while loop: the first of base, base-1, base-2 ... that is no alias yet
        Unused(base, ix, aliases) ==
          IF \E f \in DOMAIN aliases : aliases[f] = base \o Suffix(ix)
          THEN Unused(base, ix + 1, aliases) ELSE base \o Suffix(ix)
        RECURSIVE Bound(_, _, _)
        \* the loop over elem.boundAttributes
        Bound(st, elem, props) ==
          IF props = <<>> \/ st.thrown THEN st
          ELSE LET property == Head(props)
                   fieldId == elem.boundAttributes[property]
                   known == Get(st.aliases, fieldId)
                   base == Api_get_name(fieldId)
                   alias == IF known # UNDEF /\ known # <<>> THEN known
                            ELSE Unused(base, 0, st.aliases)
               IN IF (known = UNDEF \/ known = <<>>) /\ (base = UNDEF \/ base = <<>>)
                  THEN [st EXCEPT !.thrown = TRUE]
                  ELSE Bound([st EXCEPT !.aliases = Put(@, Key(fieldId), alias),
                                        !.chunks = Append(@,
                                          [UiLine("attribute", Len(st.chunks), Add2(st.indent))
                                             EXCEPT !.property = property, !.static = FALSE,
                                                    !.value = FieldToken(alias, FALSE, NoValue, -1)])],
                             elem, Tail(props))
        \* the binding line of an element with a bound view
        Binding(st, elem) ==
          IF elem.boundView = UNDEF \/ elem.boundView = <<>> THEN st
          ELSE IF Key(elem.boundView) \notin DOMAIN ir.boundQueries
                  \/ ir.boundQueries[Key(elem.boundView)].raw = UNDEF
          THEN [st EXCEPT !.thrown = TRUE]
          ELSE [st EXCEPT !.chunks = Append(@,
                            [UiLine("binding", Len(st.chunks), Add2(st.indent))
                               EXCEPT !.text = Trim(ir.boundQueries[Key(elem.boundView)].raw)]),
                          !.aliases = IF elem.hasBindings
                                      THEN CopyAliases(@, elem.bindings, Enum(DOMAIN elem.bindings))
                                      ELSE @]
        \* one iteration of the loop over the unravelled ids
        Step(st, id) ==
          LET elem == ElemOf(id)
              hasParent == elem.parent # UNDEF /\ elem.parent # <<>>
              own == IF ~hasParent THEN 0
                     ELSE IF Key(elem.parent) \in DOMAIN st.elemIndent
                     THEN Add2(st.elemIndent[Key(elem.parent)]) ELSE NaN
              elemAST == [UiLine("element", Len(st.chunks), own)
                            EXCEPT !.name = elem.name, !.tag = elem.tag]
              pushed == [st EXCEPT !.elemIndent = IF hasParent THEN Put(@, Key(id), own) ELSE @,
                                   !.chunks = IF IsRoot(id) THEN @ ELSE Append(@, elemAST),
                                   !.indent = IF IsRoot(id) THEN -2 ELSE own]
              at == IF IsRoot(id) THEN 0 ELSE Len(pushed.chunks)
          IN With(Binding(pushed, elem), LAMBDA b :
               IF b.thrown THEN b
               ELSE With(Static(b, elem, Enum(DOMAIN elem.attributes), at), LAMBDA s :
                      Bound(s, elem, Enum(DOMAIN elem.boundAttributes))))
        RECURSIVE Steps(_, _)
        Steps(st, ids) ==
          IF ids = <<>> \/ st.thrown THEN st ELSE Steps(Step(st, Head(ids)), Tail(ids))
        Done(st) ==
          IF st.thrown THEN [ui |-> [ui EXCEPT !.ast = UiAST(st.chunks)], thrown |-> TRUE]
          ELSE [ui |-> [ui EXCEPT !.ast = UiAST(st.chunks),
                                  !.raw = IF ui.errors = <<>> THEN tokenToString(UiAST(st.chunks)) ELSE @],
                thrown |-> FALSE]
    IN With(unravel(rootId, ChildMap(Put(EmptyMap, Key(rootId), <<>>), ir.elements), 0), LAMBDA elems :
         IF elems.over THEN [ui |-> [ui EXCEPT !.ast = UiAST(<<>>)], thrown |-> TRUE]
         ELSE Done(Steps([chunks |-> <<>>, elemIndent |-> Put(EmptyMap, Key(rootId), -2),
                          aliases |-> EmptyMap, indent |-> 0, thrown |-> FALSE], elems.ids)))

\* ---------------------------------------------------------------------------
\* Round trip
\* ---------------------------------------------------------------------------
NoRT == [unset |-> TRUE]

\* new Query().parse(raw), then unreify() and stringify(ast) on that instance,
\* then new Query().parse of the regenerated text
Query_roundTrip(raw, uuid0) ==
  With(Query_parse(NewQuery, raw, uuid0), LAMBDA first :
    With(Query_unreify(first.q), LAMBDA un :
      IF first.ret = "this" /\ IsSet(first.q.reified) /\ ~un.thrown
      THEN With(tokenToString(un.q.ast), LAMBDA text :
             With(Query_parse(NewQuery, text, first.uuid), LAMBDA second :
               [raw |-> raw, first |-> first.q, ret |-> first.ret, unreified |-> TRUE, text |-> text,
                second |-> second.q, ret2 |-> second.ret, uuid |-> second.uuid]))
      ELSE [raw |-> raw, first |-> first.q, ret |-> first.ret, unreified |-> FALSE, text |-> UNDEF,
            second |-> NewQuery, ret2 |-> "none", uuid |-> first.uuid]))

\* ---------------------------------------------------------------------------
\* Inputs
\* ---------------------------------------------------------------------------
\* a text as its characters; ' stands for the backtick
Chars(s) == [i \in 1..Len(s) |-> SubSeq(s, i, i)]

\* the texts of 1..n lines over a set of lines
Texts(lines, n) == {JoinWith(ls, <<NL>>) : ls \in UNION {[1..k -> lines] : k \in 1..n}}

MaxCalls == 2
MaxRTLines == 3
MaxTreeLines == 4
MaxScopeLines == 5

\* Query texts: one and two sources, a changed alias, a changed view, an
\* unknown view, an unclosed literal, a line of one space, a negated source
QTexts ==
  {Chars("a ?x"), Chars("a ?y"), Chars("b ?x c ?"), Chars("a ?x\nb ?x c ?"), Chars("b ?x c ?\na ?x"),
   Chars("a ?x\na ?y"), Chars("e ?x"), Chars("a 'x\na ?x"), Chars(" \na ?x"), Chars("!a ?x")}

\* the ASTs handed to Query.loadFromAST: none, or the AST of a parsed text
QAsts == {NoIR} \cup {Query_parse(NewQuery, x, 0).q.ast : x \in {Chars("a ?x"), Chars("b ?x c ?"), Chars("e ?x")}}

\* Ui texts: elements, a static attribute, a binding, an unresolved alias, an
\* id set after children, a binding whose query fails, a malformed attribute,
\* two siblings, a binding whose query has a parse error
UTexts ==
  {Chars("d"), Chars("d\n p"), Chars("d\n - k: 'v'"), Chars("d\n ~ a ?x\n - t: ?x"),
   Chars("d\n - t: ?z"), Chars("d\n p\n- id: 'a'"), Chars("d\n- t: ?z\n- id: 'a'"),
   Chars("d\n ~ e ?x"), Chars("d\n - k"), Chars("p\nd"), Chars("d\n ~ a 'x")}

UAsts == {NoIR} \cup {Ui_parse(NewUi, x, 0).ui.ast : x \in {Chars("d\n p"), Chars("d\n - t: ?z"), Chars("d\n p\n- id: 'a'")}}

\* source lines and ordinals for the round trip
RTLines ==
  {Chars("a ?x"), Chars("b ?x c ?"), Chars("b ?x c ?y"), Chars("# ?r by ?x"), Chars("# ?r by ?x descending")}
RTTexts == Texts(RTLines, MaxRTLines)

\* elements at three indents, an attribute at indent 0, static id and parent
TreeLines ==
  {Chars("d"), Chars(" p"), Chars("  i"), Chars("- k: 'v'"), Chars(" - id: 'a'"), Chars(" - parent: 'a'")}
TreeTexts == Texts(TreeLines, MaxTreeLines)

\* an element and a child, bindings that define x or y, an attribute bound to x
ScopeLines ==
  {Chars("d"), Chars(" p"), Chars("  ~ a ?x"), Chars("  ~ a ?y"), Chars("  - t: ?x")}
ScopeTexts == Texts(ScopeLines, MaxScopeLines)

\* ---------------------------------------------------------------------------
\* State
\* ---------------------------------------------------------------------------
VARIABLES
  q,        \* the Query instance
  u,        \* the Ui instance
  uuid,     \* the number of identifiers Api.uuid() has generated
  calls,    \* the number of calls made
  call,     \* the last call: operation, argument, raw text and counter before it
  ret,      \* how the last call ended: "this", "undefined" or "throw"
  prevRaw,  \* the text whose reification is q.prev
  scopeLog, \* the getScopedBinding calls of the last Ui reification
  rt        \* the round trip made

vars == <<q, u, uuid, calls, call, ret, prevRaw, scopeLog, rt>>

Init ==
  /\ q = NewQuery
  /\ u = NewUi
  /\ uuid = 0
  /\ calls = 0
  /\ call = [op |-> "new", arg |-> UNDEF, before |-> UNDEF, uuid0 |-> 0]
  /\ ret = "none"
  /\ prevRaw = UNDEF
  /\ scopeLog = <<>>
  /\ rt = NoRT

\* q.parse(x) for a text x of T
QueryParse(T) ==
  \E x \in T : \E r \in {Query_parse(q, x, uuid)} :
    /\ q' = r.q
    /\ uuid' = r.uuid
    /\ ret' = r.ret
    /\ calls' = calls + 1
    /\ call' = [op |-> "Query.parse", arg |-> x, before |-> q.raw, uuid0 |-> uuid]
    /\ prevRaw' = IF ~SameRaw(q, x) /\ IsSet(q.reified) THEN q.raw ELSE prevRaw
    /\ UNCHANGED <<u, scopeLog, rt>>

\* q.loadFromAST(ast) for an AST of A
QueryLoadFromAST(A) ==
  \E ast \in A : \E r \in {Query_loadFromAST(q, ast, uuid)} :
    /\ q' = r.q
    /\ uuid' = r.uuid
    /\ ret' = r.ret
    /\ calls' = calls + 1
    /\ call' = [op |-> "Query.loadFromAST", arg |-> UNDEF, before |-> q.raw, uuid0 |-> uuid]
    /\ prevRaw' = UNDEF
    /\ UNCHANGED <<u, scopeLog, rt>>

\* u.parse(x) for a text x of T
UiParse(T) ==
  \E x \in T : \E r \in {Ui_parse(u, x, uuid)} :
    /\ u' = r.ui
    /\ uuid' = r.uuid
    /\ ret' = r.ret
    /\ calls' = calls + 1
    /\ call' = [op |-> "Ui.parse", arg |-> x, before |-> u.raw, uuid0 |-> uuid]
    /\ scopeLog' = r.log
    /\ UNCHANGED <<q, prevRaw, rt>>

\* u.loadFromAST(ast) for an AST of A
UiLoadFromAST(A) ==
  \E ast \in A : \E r \in {Ui_loadFromAST(u, ast, uuid)} :
    /\ u' = r.ui
    /\ uuid' = r.uuid
    /\ ret' = r.ret
    /\ calls' = calls + 1
    /\ call' = [op |-> "Ui.loadFromAST", arg |-> UNDEF, before |-> u.raw, uuid0 |-> uuid]
    /\ scopeLog' = r.log
    /\ UNCHANGED <<q, prevRaw, rt>>

\* the round trip of a text x of T through two fresh Query instances
RoundTrip(T) ==
  \E x \in T : \E r \in {Query_roundTrip(x, uuid)} :
    /\ rt' = r
    /\ uuid' = r.uuid
    /\ ret' = r.ret
    /\ calls' = calls + 1
    /\ call' = [op |-> "roundTrip", arg |-> x, before |-> UNDEF, uuid0 |-> uuid]
    /\ UNCHANGED <<q, u, prevRaw, scopeLog>>

QParse == calls < MaxCalls /\ QueryParse(QTexts)
QLoad == calls < MaxCalls /\ QueryLoadFromAST(QAsts)
UParse == calls < MaxCalls /\ UiParse(UTexts)
ULoad == calls < MaxCalls /\ UiLoadFromAST(UAsts)

Next == QParse \/ QLoad \/ UParse \/ ULoad

\* a Query and a Ui instance under any sequence of parse and loadFromAST calls
Spec == Init /\ [][Next]_vars

RTStep == calls = 0 /\ RoundTrip(RTTexts)
\* one round trip of a text of source and ordinal lines
SpecRT == Init /\ [][RTStep]_vars

TreeParse == calls = 0 /\ UiParse(TreeTexts)
\* a new Ui parsing a document of elements and static attributes
SpecTree == Init /\ [][TreeParse]_vars

ScopeParse == calls = 0 /\ UiParse(ScopeTexts)
\* a new Ui parsing a document of elements, bindings and bound attributes
SpecScope == Init /\ [][ScopeParse]_vars

MaxQLines == 2
MaxContCalls == 3
MaxTokLen == 4
MaxFpChunks == 3

\* new Query().parse(x) for a document x of source, ordinal, calculation,
\* action, comment, blank and malformed lines: every document of up to
\* MaxQLines lines and some longer ones; or up to MaxContCalls successive
\* q.parse(x) calls on one Query with texts that reify and texts that fail
LinesParse ==
  LET lines == {Chars(s) : s \in
        {"a ?x", "b ?x c ?y", "d ?x", "e ?x", "a 'x", "", " ", "; c",
         "# ?r by ?y", "# ?r by ?y descending ?x", "# ?r by ?x ?x", "# ?r by ?z",
         "+ ?x", "+ ?",
         "?z $= (1)", "?z $=(1)", "?z $= (1", "?z $= 1)", "?z $= ((1))"}}
      longer == {Chars(s) : s \in
        {"a ?x\na 'x\n# ?r by ?x", "b ?x c ?y\n# ?r by ?y\n+ ?x", "d ?x\ne ?x\n+ ?x",
         "a ?x\n\n# ?r by ?x", "b ?x c ?y\n# ?r by ?x\n# ?r by ?y", "b ?x c ?x\n# ?r by ?x"}}
      \* two texts that reify, one that extends them, one with a parse error,
      \* two with a reification error, and two with the alias `undefined`
      cont == {Chars(s) : s \in
        {"a ?x", "b ?x c ?y", "a ?x\nb ?x c ?y", "a 'x", "e ?x", "# ?r by ?z",
         "a ?undefined", "b ? c ?undefined"}}
  IN \/ calls = 0 /\ QueryParse(Texts(lines, MaxQLines) \cup longer)
     \/ calls < MaxContCalls /\ (calls = 0 \/ q.raw \in cont) /\ QueryParse(cont)

MaxUnLines == 4

\* one application of makeTokenizer(tokens)(line), of fingerprintSource(ast)
\* or of ParseError(msg, token) to an input of a bounded set, unreify() on
\* the new Ui that parsed a document of a bounded set, or tokenToString and
\* parseField on a literal field that parseField produced
Apply ==
  LET chars == {"a", SP, "$", "="}
      rawLines == UNION {[1..k -> chars] : k \in 0..MaxTokLen}
      alphabets == {<<<<SP>>>>, <<<<"$", "=">>>>, <<<<"$">>, <<"$", "=">>>>,
                    <<<<"$", "=">>, <<"=">>>>, <<<<"a", SP>>, <<SP>>>>, Q_TOKENS, U_TOKENS,
                    <<<<>>>>, <<<<SP>>, <<>>>>}
      \* an iteration of the while loop that finds the empty token at index 0
      \* pushes it and leaves raw as it is, and so does every later iteration
      RECURSIVE Loops(_, _)
      Loops(tokens, raw) ==
        IF raw = <<>> THEN FALSE
        ELSE LET m == TokScan(tokens, raw, Len(raw), raw)
             IN m.ix + Len(m.tok) = 0 \/ Loops(tokens, Drop(raw, m.ix + Len(m.tok)))
      chunk == {Token("text", Chars("! "), 0), Token("text", Chars("! a"), 0),
                Token("text", Chars("a "), 0), Token("text", Chars("!a"), 0),
                Token("keyword", <<"!">>, 0),
                FieldToken(UNDEF, FALSE, NoValue, 0), FieldToken(<<"x">>, TRUE, NoValue, 0),
                FieldToken(UNDEF, FALSE, StrValue(<<"a">>), 0)}
      asts == {Line("source", cs, 0, 0) : cs \in UNION {[1..k -> chunk] : k \in 1..MaxFpChunks}}
      \* tokenToChar(token, line) of the language whose tokenizer has the alphabet
      \* tokens; array.slice(0, n) with a negative n counts from the end
      tokenToChar(tokens, token, line) ==
        LET all == makeTokenizer(tokens, line)
            n == token.tokenIx - 1
            to == IF n < 0 THEN (IF Len(all) + n < 0 THEN 0 ELSE Len(all) + n) ELSE n
        IN Len(Join(Take(all, to)))
      \* repeat(length, " ") and repeat(length, "~")
      repeat(length, c) == [i \in 1..length |-> c]
      underline(startIx, length) == repeat(startIx, SP) \o <<"^">> \o repeat(length - 1, "~")
      \* ParseError(msg, token) with ParseError.lines[lineIx] = line: charIx and
      \* the marker line under the text of the line
      Report(tokens, token, line) ==
        LET charIx == tokenToChar(tokens, token, line)
            text == tokenToString(token)
            ix == IndexOf(text, <<NL>>)
            length == IF ix # -1 THEN ix - charIx
                      ELSE (IF Len(text) # 0 THEN Len(text) ELSE Len(line)) - charIx
        IN [charIx |-> charIx, marker |-> underline(charIx, length)]
      \* the chunks of a Query line, on which lines 549, 608-619, 675 and 718
      \* raise their errors, each with the number of characters before it
      queryTokens ==
        UNION {LET chunks == Query_parseLine(Query_tokenize(l), 0).line.chunks
               IN {[line |-> l, tokens |-> Q_TOKENS, token |-> chunks[i],
                    at |-> Len(Join([j \in 1..(i - 1) |-> tokenToString(chunks[j])]))] : i \in 1..Len(chunks)}
               : l \in {Chars("# ?r up ?x"), Chars("+ ? a"), Chars("a ?x  b")}}
      \* the text token of lines 872-873 and 884 for an attribute line of a Ui:
      \* the tokens left after the value, tokenIx the number of tokens before them
      uiTokens ==
        {LET all == Ui_tokenize(l)
             t3 == consumeWhile(WS, Tail(consumeUntil(<<<<":">>>>, all).rest)).rest
             f == parseField(t3, Len(all) - Len(t3), 0)
         IN [line |-> l, tokens |-> U_TOKENS,
             token |-> Token("text", Join(f.rest), Len(all) - Len(f.rest)),
             at |-> Len(l) - Len(Join(f.rest))]
         : l \in {Chars("- k: z"), Chars("- k: ?x y"), Chars(" - k: 'v' ?x")}}
      \* documents of elements two levels deep, a static attribute and an event
      uiDocs == Texts({Chars(s) : s \in {"d", " p", "  - k: 'v'", "  @ e"}}, MaxUnLines)
                  \cup {Chars("d c"), Chars("d\n ~ a ?x\n - t: ?x"), Chars("d\n ~ a ?x\n p")}
      \* the literal fields parseField gives for quoted texts: integers, a
      \* float, booleans, strings and the empty string
      quoted == {Chars(s) : s \in {"0", "7", "-1", "00", "1.5", "0.0", "true", "false", "", "a", "a b", " "}}
      literals == {parseField(Query_tokenize(<<BQ>> \o t \o <<BQ>>), 1, 0).field : t \in quoted}
  IN /\ calls = 0
     /\ calls' = calls + 1
     /\ \/ \E tokens \in alphabets : \E line \in rawLines :
             /\ call' = [op |-> "tokenize", arg |-> line, before |-> tokens, uuid0 |-> uuid]
             /\ rt' = IF Loops(tokens, line) THEN [returns |-> FALSE, pieces |-> <<>>]
                      ELSE [returns |-> TRUE, pieces |-> makeTokenizer(tokens, line)]
        \/ \E ast \in asts :
             /\ call' = [op |-> "fingerprintSource", arg |-> ast, before |-> UNDEF, uuid0 |-> uuid]
             /\ rt' = [fingerprint |-> fingerprintSource(ast)]
        \/ \E e \in queryTokens \cup uiTokens :
             /\ call' = [op |-> "ParseError", arg |-> e, before |-> UNDEF, uuid0 |-> uuid]
             /\ rt' = Report(e.tokens, e.token, e.line)
        \/ \E field \in literals : \E tokens \in {Q_TOKENS, U_TOKENS} :
           \E r \in {parseField(makeTokenizer(tokens, tokenToString(field)), 1, 0)} :
             /\ call' = [op |-> "reparse", arg |-> field, before |-> tokens, uuid0 |-> uuid]
             /\ rt' = [text |-> tokenToString(field), kind |-> r.kind, field |-> r.field, rest |-> r.rest]
        \/ \E x \in uiDocs : \E p \in {Ui_parse(NewUi, x, 0)} : \E r \in {Ui_unreify(p.ui)} :
             /\ call' = [op |-> "Ui.unreify", arg |-> x, before |-> UNDEF, uuid0 |-> uuid]
             /\ rt' = [reified |-> p.ret # "throw" /\ IsSet(p.ui.reified), ir |-> p.ui.reified,
                       thrown |-> r.thrown, chunks |-> r.ui.ast.chunks, raw |-> r.ui.raw]
     /\ UNCHANGED <<q, u, uuid, ret, prevRaw, scopeLog>>

\* one call on a new Query or one application of a pure function
SpecLines == Init /\ [][LinesParse \/ Apply]_vars

\* ---------------------------------------------------------------------------
\* Properties
\* ---------------------------------------------------------------------------
\* the last call was a parse of q that did not take the memo return
Reparsed == call.op = "Query.parse" /\ call.arg # call.before

\* id was generated by Api.uuid() during the last call
Fresh(id) == \E n \in call.uuid0..(uuid - 1) : id = Uuid(n)

\* C1: after any sequence of parse and loadFromAST calls on a Query or a Ui,
\* a set reified comes with an empty error list, a call that ended in an
\* exception leaves reified unset, and an error of reification leaves the
\* partially built IR in failed
C1_ReifiedOnlyWithoutError ==
  LET reifyMsgs == {"Fingerprint matches no known views.", "Fingerprint is missing for field.",
                    "Ordinals must follow a valid source.",
                    "Ordinal alias does not match any aliased fields of the ordinated source.",
                    "@TODO: Add support for reifying actions",
                    "Cannot join nested views on unselected alias",
                    "Could not resolve alias for bound attribute",
                    "Could not resolve alias for bound event"}
      Holds(inst, ops) ==
        /\ IsSet(inst.reified) => inst.errors = <<>>
        /\ (call.op \in ops /\ ret = "throw") => ~IsSet(inst.reified)
        /\ (\E i \in 1..Len(inst.errors) : inst.errors[i].msg \in reifyMsgs) => IsSet(inst.failed)
  IN /\ Holds(q, {"Query.parse", "Query.loadFromAST"})
     /\ Holds(u, {"Ui.parse", "Ui.loadFromAST"})

\* C2: Query.parse and Ui.parse never end in an exception, and a Query.parse
\* call leaves every line of its text either as a chunk of the AST or as an
\* error of the list
C2_ParseNeverThrows ==
  /\ call.op \in {"Query.parse", "Ui.parse"} => ret # "throw"
  /\ Reparsed =>
       LET lines == Len(Split(call.arg, NL))
       IN Len(q.ast.chunks) = lines \/ Len(q.ast.chunks) + Len(q.errors) = lines

\* C3: when a Query with a previous IR is parsed again and reifies, its k-th
\* source has the id of the previous IR's k-th source when both point at the
\* same view, and an id generated by this call otherwise; a first source line
\* that is textually the first line of the previous text keeps its id
C3_SourceIdStable ==
  (Reparsed /\ IsSet(q.reified) /\ IsSet(q.prev)) =>
    /\ \A k \in 1..Len(q.reified.sources) :
         LET s == q.reified.sources[k]
             kept == k <= Len(q.prev.sources) /\ q.prev.sources[k].sourceView = s.sourceView
         IN IF kept THEN s.source = q.prev.sources[k].source ELSE Fresh(s.source)
    /\ (/\ prevRaw # UNDEF
        /\ Split(prevRaw, NL)[1] = Split(call.arg, NL)[1]
        /\ q.prev.sources # <<>>
        /\ q.prev.sources[1].lineIx = 0)
         => /\ q.reified.sources # <<>>
            /\ q.reified.sources[1].source = q.prev.sources[1].source

\* a second parse that reified with a previous IR, keeping the id of one source
\* and generating the id of another
C3_Witness ==
  /\ Reparsed /\ IsSet(q.reified) /\ IsSet(q.prev) /\ prevRaw # UNDEF
  /\ Split(prevRaw, NL)[1] = Split(call.arg, NL)[1]
  /\ \E k \in 1..Len(q.reified.sources) :
       /\ k <= Len(q.prev.sources)
       /\ q.prev.sources[k].sourceView = q.reified.sources[k].sourceView
       /\ q.reified.sources[k].source = q.prev.sources[k].source
  /\ \E k \in 1..Len(q.reified.sources) :
       /\ k > Len(q.prev.sources) \/ q.prev.sources[k].sourceView # q.reified.sources[k].sourceView
       /\ Fresh(q.reified.sources[k].source)

\* C4: when a Query with a previous IR is parsed again and reifies, every
\* alias of the previous alias table has the variable id it had there and
\* that variable has the selected field id it had there; every other alias
\* has a variable id generated by this call
C4_AliasIdStable ==
  (Reparsed /\ IsSet(q.reified) /\ IsSet(q.prev)) =>
    \A a \in DOMAIN q.reified.aliases :
      LET varId == q.reified.aliases[a]
      IN IF a \in DOMAIN q.prev.aliases
         THEN /\ varId = q.prev.aliases[a]
              /\ q.reified.variables[varId].selected = q.prev.variables[varId].selected
         ELSE Fresh(varId)

\* a second parse that reified with one alias of the previous IR and one new
C4_Witness ==
  /\ Reparsed /\ IsSet(q.reified) /\ IsSet(q.prev)
  /\ \E a \in DOMAIN q.reified.aliases :
       /\ a \in DOMAIN q.prev.aliases
       /\ q.prev.variables[q.prev.aliases[a]].selected # UNDEF
       /\ q.reified.variables[q.reified.aliases[a]].selected
            = q.prev.variables[q.prev.aliases[a]].selected
  /\ \E a \in DOMAIN q.reified.aliases : a \notin DOMAIN q.prev.aliases /\ Fresh(q.reified.aliases[a])

\* C5: parse(x) on a Query or a Ui whose raw is x returns the instance and
\* changes none of raw, ast, reified, failed, errors and prev, and generates
\* no identifier
C5_ParseMemoized ==
  [][/\ (call'.op = "Query.parse" /\ call'.arg = q.raw) => (q' = q /\ ret' = "this" /\ uuid' = uuid)
     /\ (call'.op = "Ui.parse" /\ call'.arg = u.raw) => (u' = u /\ ret' = "this" /\ uuid' = uuid)]_vars

\* a Query parsed a second time with the text that failed the first time
C5_Witness ==
  /\ call.op = "Query.parse" /\ call.arg = call.before
  /\ calls = 2 /\ ret = "this"
  /\ q.raw = call.arg /\ q.errors # <<>> /\ ~IsSet(q.reified)

\* C6: a text of source and ordinal lines that reifies without error can be
\* unreified, and the regenerated text reifies to an IR with the same sources
\* (view, negated, chunked, sort, ordinal) and the same graph of fields,
\* ordinals and variables
C6_RoundTrip ==
  LET Range(f) == {f[i] : i \in DOMAIN f}
      Graph(ir) ==
        {[fields |-> {<<k, i>> \in (1..Len(ir.sources)) \X (1..2) :
                        /\ i <= Len(ir.sources[k].fields)
                        /\ [source |-> ir.sources[k].source, field |-> ir.sources[k].fields[i].field]
                             \in Range(ir.variables[v].bindings)},
          ordinals |-> {k \in 1..Len(ir.sources) : ir.sources[k].source \in Range(ir.variables[v].ordinals)}]
           : v \in DOMAIN ir.variables}
      Sources(ir) ==
        [k \in 1..Len(ir.sources) |->
           [view |-> ir.sources[k].sourceView, negated |-> ir.sources[k].negated,
            chunked |-> ir.sources[k].chunked, sort |-> ir.sources[k].sort,
            ordinal |-> ir.sources[k].ordinal]]
  IN (call.op = "roundTrip" /\ IsSet(rt.first.reified)) =>
       /\ rt.unreified
       /\ IsSet(rt.second.reified)
       /\ Sources(rt.second.reified) = Sources(rt.first.reified)
       /\ Graph(rt.second.reified) = Graph(rt.first.reified)

\* C7: after Query.parse, a source line of the AST has negated set exactly
\* when its line of the text begins with "!", and a reified source has the
\* flag of its line
C7_BangNegates ==
  (Reparsed /\ ret = "this") =>
    /\ \A i \in 1..Len(q.ast.chunks) :
         tokenIsSource(q.ast.chunks[i]) =>
           LET text == TrimLeft(Split(call.arg, NL)[q.ast.chunks[i].lineIx + 1])
           IN q.ast.chunks[i].negated = (text # <<>> /\ text[1] = "!")
    /\ IsSet(q.reified) =>
         \A k \in 1..Len(q.reified.sources) :
           LET text == TrimLeft(Split(call.arg, NL)[q.reified.sources[k].lineIx + 1])
           IN q.reified.sources[k].negated = (text # <<>> /\ text[1] = "!")

\* the element line that an indented line of a Ui document belongs to: the
\* nearest preceding element line with a strictly smaller indent, 0 when none
Owner(chunks, i) ==
  LET above == {j \in 1..(i - 1) : tokenIsElement(chunks[j]) /\ chunks[j].indent < chunks[i].indent}
  IN IF above = {} THEN 0 ELSE CHOOSE j \in above : \A m \in above : m <= j

\* C8: after Ui reification, an element without a static parent attribute has
\* as parent the element of the nearest preceding element line with a
\* strictly smaller indent, or the root when there is none
C8_ParentByIndent ==
  (call.op = "Ui.parse" /\ ret # "throw" /\ IsSet(u.reified)) =>
    LET chunks == u.ast.chunks
        Ord(i) == Cardinality({j \in 1..i : tokenIsElement(chunks[j])})
        IdAt(i) == IF i = 0 THEN u.reified.root.element ELSE u.reified.elements[Ord(i)].element
        StaticParent(i) ==
          \E a \in 1..Len(chunks) :
            /\ tokenIsAttribute(chunks[a]) /\ chunks[a].static /\ chunks[a].property = S_parent
            /\ Owner(chunks, a) = i
    IN \A i \in 1..Len(chunks) :
         (tokenIsElement(chunks[i]) /\ ~StaticParent(i)) =>
           u.reified.elements[Ord(i)].parent = IdAt(Owner(chunks, i))

\* C9: in a reified Ui IR the parent of every element is the root or an
\* element of the IR, and following parents from any element reaches the root
\* within as many steps as there are elements
C9_TreeAcyclic ==
  (call.op = "Ui.parse" /\ ret # "throw" /\ IsSet(u.reified)) =>
    LET elems == u.reified.elements
        n == Len(elems)
        reach[d \in 0..n] ==
          IF d = 0 THEN {u.reified.root.element}
          ELSE reach[d - 1] \cup {elems[k].element : k \in {j \in 1..n : elems[j].parent \in reach[d - 1]}}
    IN \A k \in 1..n :
         /\ elems[k].parent \in {u.reified.root.element} \cup {elems[j].element : j \in 1..n}
         /\ elems[k].element \in reach[n]

\* C10: every getScopedBinding call of a Ui reification returns the selected
\* field of the alias in the bound query of the innermost ancestor whose query
\* defines the alias, whatever unbound ancestors or queries without the alias
\* lie inside it; when no ancestor's query defines the alias it returns
\* nothing and a bound attribute records a could-not-resolve error
C10_InnermostFirst ==
  \A e \in 1..Len(scopeLog) :
    LET entry == scopeLog[e]
        hits == {i \in 1..Len(entry.chain) : entry.chain[i].bound /\ entry.chain[i].defines}
        m == CHOOSE i \in hits : \A j \in hits : j <= i
    IN IF hits = {}
       THEN /\ entry.kind = "undefined"
            /\ entry.caller = "attribute" =>
                 \E i \in 1..Len(u.errors) : u.errors[i].msg = "Could not resolve alias for bound attribute"
       ELSE entry.chain[m].selected # UNDEF =>
              /\ entry.kind = "value"
              /\ entry.field = entry.chain[m].selected

\* a bound attribute on an element with its own binding, inside an element
\* whose binding selects another field for the same alias
C10_Witness ==
  \E e \in 1..Len(scopeLog) :
    LET entry == scopeLog[e]
        n == Len(entry.chain)
    IN /\ entry.caller = "attribute"
       /\ n >= 2
       /\ entry.chain[n].bound /\ entry.chain[n].defines
       /\ \E i \in 1..(n - 1) :
            /\ entry.chain[i].bound /\ entry.chain[i].defines
            /\ entry.chain[i].selected # entry.chain[n].selected
       /\ entry.kind = "value" /\ entry.field = entry.chain[n].selected

\* C11: a static id attribute on an element that already has child elements
\* makes Ui.parse end with an error in the list, reified unset and the
\* partial IR in failed; a static id on an element without children renames
\* that element
C11_IdAfterChildren ==
  (call.op = "Ui.parse" /\ call.arg # call.before /\ IsSet(u.ast)) =>
    LET chunks == u.ast.chunks
        Ord(i) == Cardinality({j \in 1..i : tokenIsElement(chunks[j])})
        IdLine(a) == tokenIsAttribute(chunks[a]) /\ chunks[a].static /\ chunks[a].property = S_id
        Late(a) == \E j \in (Owner(chunks, a) + 1)..(a - 1) :
                     tokenIsElement(chunks[j]) /\ Owner(chunks, j) = Owner(chunks, a)
        LastId(a) == IdLine(a) /\ \A b \in (a + 1)..Len(chunks) :
                       IdLine(b) => Owner(chunks, b) # Owner(chunks, a)
    IN /\ (\E a \in 1..Len(chunks) : IdLine(a) /\ Late(a)) =>
            /\ ret # "throw"
            /\ u.errors # <<>>
            /\ ~IsSet(u.reified)
            /\ IsSet(u.failed)
       /\ (IsSet(u.reified) /\ ret # "throw") =>
            \A a \in 1..Len(chunks) :
              (LastId(a) /\ ~Late(a)) =>
                IF Owner(chunks, a) = 0
                THEN u.reified.root.element = IdOf(chunks[a].value.value)
                ELSE u.reified.elements[Ord(Owner(chunks, a))].element = IdOf(chunks[a].value.value)


\* C12: when Query.parse reaches reification, every line of the document that
\* is an action line or a source whose fingerprint matches no view has its
\* error in the list of that same pass, whatever the lines before it did
C12_ErrorsOfAllLines ==
  (Reparsed /\ ret = "this" /\ IsSet(q.ast)
     /\ \A e \in 1..Len(q.errors) :
          q.errors[e].msg \in {"Fingerprint matches no known views.", "Fingerprint is missing for field.",
                               "Ordinals must follow a valid source.",
                               "Ordinal alias does not match any aliased fields of the ordinated source.",
                               "@TODO: Add support for reifying actions"}) =>
    LET lines == FlattenCalculations(q.ast.chunks)
        Reported(i, msg) == \E e \in 1..Len(q.errors) :
                              q.errors[e].msg = msg /\ q.errors[e].lineIx = lines[i].lineIx
    IN \A i \in 1..Len(lines) :
         /\ (tokenIsSource(lines[i]) /\ FindByFingerprint(fingerprintSource(lines[i])) = 0)
              => Reported(i, "Fingerprint matches no known views.")
         /\ tokenIsAction(lines[i]) => Reported(i, "@TODO: Add support for reifying actions")


\* C13: a new Query parsing a document with a line of only spaces and tabs
\* returns normally and ends with the errors and the reified and failed IR of
\* the same document with that line emptied
C13_WhitespaceLineIsBlank ==
  LET lines == Split(call.arg, NL)
      OnlyWs(l) == l # <<>> /\ \A i \in 1..Len(l) : IsWs(l[i])
      blanked == JoinWith([i \in 1..Len(lines) |-> IF OnlyWs(lines[i]) THEN <<>> ELSE lines[i]], <<NL>>)
  IN (Reparsed /\ call.before = UNDEF /\ \E i \in 1..Len(lines) : OnlyWs(lines[i])) =>
       /\ ret = "this"
       /\ \E r \in {Query_parse(NewQuery, blanked, call.uuid0)} :
            /\ q.errors = r.q.errors
            /\ q.reified = r.q.reified
            /\ q.failed = r.q.failed


\* C14: in a reified Query, a source followed by an ordinal line whose sort
\* aliases all match fields of the source has a sort list made of one entry
\* per named alias in the written order (ranks from 0, the field of that alias,
\* the stated direction or ascending), then the fields that were not named in
\* source order, ascending, with the next ranks
C14_SortList ==
  (Reparsed /\ ret = "this" /\ IsSet(q.reified)) =>
    \A c \in 2..Len(q.ast.chunks) :
      tokenIsOrdinal(q.ast.chunks[c]) =>
        LET o == q.ast.chunks[c].chunks
            at == SelectSeq([i \in 1..Len(o) |-> i], LAMBDA i : i >= 4 /\ tokenIsField(o[i]))
            k == Len(at)
            Stated(i) == IF i < Len(o) /\ tokenIsText(o[i + 1])
                            /\ IndexOf(ToLowerCase(Trim(o[i + 1].text)), S_descending) = 0
                         THEN S_descending ELSE S_ascending
        IN \A s \in 1..Len(q.reified.sources) :
             q.reified.sources[s].lineIx = q.ast.chunks[c - 1].lineIx =>
               LET fields == q.reified.sources[s].fields
                   FieldOf(alias) == fields[MatchField(fields, alias)].field
                   named == {FieldOf(o[at[j]].alias) : j \in 1..k}
                   rest == SelectSeq([i \in 1..Len(fields) |-> fields[i].field], LAMBDA f : f \notin named)
               IN q.reified.sources[s].sort =
                    [j \in 1..k |-> [ix |-> j - 1, field |-> FieldOf(o[at[j]].alias), direction |-> Stated(at[j])]]
                    \o [j \in 1..Len(rest) |-> [ix |-> k + j - 1, field |-> rest[j], direction |-> S_ascending]]


\* line i (from 1) of the parsed document starts, after its padding, with c
StartsLine(i, c) ==
  LET l == TrimLeft(Split(call.arg, NL)[i]) IN l # <<>> /\ Head(l) = c

\* line i (from 1) of the parsed document is in the AST as a source line
IsSourceLine(i) ==
  i >= 1 /\ IsSet(q.ast) /\ \E c \in 1..Len(q.ast.chunks) :
    q.ast.chunks[c].lineIx = i - 1 /\ tokenIsSource(q.ast.chunks[c])

\* the error list has msg for line i (from 1)
ErrorAt(i, msg) == \E e \in 1..Len(q.errors) : q.errors[e].msg = msg /\ q.errors[e].lineIx = i - 1

\* C15: after a parse of a new Query, an ordinal line whose preceding line is
\* not a source line (first line, or after a blank, comment, calculation,
\* ordinal or failed line) is not in the AST, has its "must immediately follow
\* a source" error in the list and leaves reified unset; in a reified Query the
\* sources with an ordinal are exactly those whose next line is an ordinal
\* line, bound to its alias
C15_OrdinalAfterSource ==
  (Reparsed /\ call.before = UNDEF) =>
    LET n == Len(Split(call.arg, NL))
    IN /\ \A i \in 1..n :
            (StartsLine(i, "#") /\ ~IsSourceLine(i - 1)) =>
              /\ ~IsSet(q.reified)
              /\ ret = "this" =>
                   /\ ErrorAt(i, "Ordinal must immediately follow a source.")
                   /\ \A c \in 1..Len(q.ast.chunks) : q.ast.chunks[c].lineIx # i - 1
       /\ (ret = "this" /\ IsSet(q.reified)) =>
            \A s \in 1..Len(q.reified.sources) :
              LET src == q.reified.sources[s]
                  next == src.lineIx + 2
              IN /\ src.hasSort <=> (next <= n /\ StartsLine(next, "#"))
                 /\ src.hasSort =>
                      \E c \in 1..Len(q.ast.chunks) :
                        /\ q.ast.chunks[c].lineIx = src.lineIx + 1
                        /\ tokenIsOrdinal(q.ast.chunks[c])
                        /\ src.ordinal = q.ast.chunks[c].alias


C18_Fingerprint ==
  call.op = "fingerprintSource" =>
    LET chunks == call.arg.chunks
        all == Join([i \in 1..Len(chunks) |-> IF chunks[i].type = "field" THEN <<"?">> ELSE chunks[i].text])
        bang == chunks[1].type = "text" /\ SubSeq(chunks[1].text, 1, 2) = <<"!", SP>>
        bare == [call.arg EXCEPT !.chunks =
                   [i \in 1..Len(chunks) |->
                      IF chunks[i].type = "field" THEN FieldToken(UNDEF, FALSE, NoValue, chunks[i].tokenIx)
                      ELSE chunks[i]]]
    IN /\ rt.fingerprint = IF bang THEN Drop(all, 2) ELSE all
       /\ rt.fingerprint = fingerprintSource(bare)

\* the fingerprint of a line that begins with a "! " text chunk and has an
\* aliased grouped field and a field with a literal value
C18_Witness ==
  /\ call.op = "fingerprintSource"
  /\ call.arg.chunks[1].type = "text" /\ SubSeq(call.arg.chunks[1].text, 1, 2) = <<"!", SP>>
  /\ \E i \in 1..Len(call.arg.chunks) :
       call.arg.chunks[i].type = "field" /\ call.arg.chunks[i].alias # UNDEF /\ call.arg.chunks[i].grouped
  /\ \E i \in 1..Len(call.arg.chunks) :
       call.arg.chunks[i].type = "field" /\ call.arg.chunks[i].value # NoValue
  /\ rt.fingerprint = <<"a", "?", "?">>


C20_BindingAfterElement ==
  (call.op = "Ui.parse" /\ call.before = UNDEF) =>
    LET BindingError(i) == \E e \in 1..Len(u.errors) :
                             /\ u.errors[e].lineIx = i - 1
                             /\ u.errors[e].msg = "Binding must immediately follow an element or a binding."
        Element(i) == ~StartsLine(i, "~") /\ ~StartsLine(i, "-") /\ ~StartsLine(i, "@")
                        /\ ~StartsLine(i, ";") /\ TrimLeft(Split(call.arg, NL)[i]) # <<>>
    IN \A i \in 1..Len(Split(call.arg, NL)) :
         StartsLine(i, "~") =>
           /\ (i = 1 \/ (~Element(i - 1) /\ ~StartsLine(i - 1, "~"))) => BindingError(i)
           /\ (i > 1 /\ Element(i - 1)) => ~BindingError(i)


\* C21: when Ui.parse reifies a document without static id attributes on an
\* instance that has a previous IR, the root has the id of the previous root
\* and the n-th element has the id of the n-th element of the previous IR when
\* there is one, and an id generated during the call otherwise
C21_PositionalIds ==
  [][(call'.op = "Ui.parse" /\ call'.arg # call'.before /\ ret' # "throw" /\ IsSet(u'.reified)
        /\ \A c \in 1..Len(u'.ast.chunks) :
             ~(tokenIsAttribute(u'.ast.chunks[c]) /\ u'.ast.chunks[c].property = S_id)) =>
       LET prevIR == IF IsSet(u.reified) THEN u.reified ELSE u.prev
       IN IsSet(prevIR) =>
            /\ u'.reified.root.element = prevIR.root.element
            /\ \A n \in 1..Len(u'.reified.elements) :
                 IF n <= Len(prevIR.elements)
                 THEN u'.reified.elements[n].element = prevIR.elements[n].element
                 ELSE \E k \in uuid..(uuid' - 1) : u'.reified.elements[n].element = Uuid(k)]_vars

\* a re-parse gave the first element, of another tag, the id of the previous
\* first element and generated an id for the second
C21_Witness ==
  /\ call.op = "Ui.parse" /\ call.arg # call.before /\ ret # "throw"
  /\ IsSet(u.reified) /\ IsSet(u.prev)
  /\ Len(u.prev.elements) = 1 /\ Len(u.reified.elements) = 2
  /\ u.reified.elements[1].tag # u.prev.elements[1].tag
  /\ u.reified.elements[1].element = u.prev.elements[1].element
  /\ Fresh(u.reified.elements[2].element)


\* C22: for an error raised on a token of a Query or Ui line, charIx is the
\* number of characters of the line before the token, which is the summed
\* length of the tokens before it, and the marker line is charIx spaces, a
\* caret and tildes up to the length of the token's text
C22_ColumnAndMarker ==
  call.op = "ParseError" =>
    LET text == tokenToString(call.arg.token)
    IN /\ SubSeq(call.arg.line, call.arg.at + 1, call.arg.at + Len(text)) = text
       /\ rt.charIx = call.arg.at
       /\ rt.marker = [i \in 1..(call.arg.at + Len(text)) |->
                         IF i <= call.arg.at THEN SP ELSE IF i = call.arg.at + 1 THEN "^" ELSE "~"]


C24_UnreifyComplete ==
  (call.op = "Ui.unreify" /\ rt.reified) =>
    LET els == rt.ir.elements
        at == {i \in 1..Len(rt.chunks) : tokenIsElement(rt.chunks[i])}
        Pos(n) == CHOOSE i \in at : Cardinality({j \in at : j <= i}) = n
        End(n) == IF n = Len(els) THEN Len(rt.chunks) ELSE Pos(n + 1) - 1
        Own(n, P(_)) == Cardinality({i \in (Pos(n) + 1)..End(n) : P(rt.chunks[i])})
        ParentIx(n) == IF els[n].parent = rt.ir.root.element THEN 0
                       ELSE CHOOSE m \in 1..Len(els) : els[m].element = els[n].parent
        RECURSIVE Depth(_)
        Depth(n) == IF ParentIx(n) = 0 THEN 0 ELSE 1 + Depth(ParentIx(n))
    IN /\ ~rt.thrown
       /\ Cardinality(at) = Len(els)
       /\ \A n \in 1..Len(els) :
            /\ rt.chunks[Pos(n)].tag = els[n].tag
            /\ rt.chunks[Pos(n)].indent = 2 * Depth(n)
            /\ ParentIx(n) < n
            /\ Own(n, LAMBDA c : tokenIsAttribute(c) /\ c.static)
                 = Cardinality(DOMAIN els[n].attributes \ {<<"c">>})
            /\ Own(n, LAMBDA c : tokenIsAttribute(c) /\ ~c.static)
                 = Cardinality(DOMAIN els[n].boundAttributes)
            /\ Own(n, LAMBDA c : tokenIsEvent(c))
                 = Len(els[n].events) + Cardinality(DOMAIN els[n].boundEvents)


\* C25: in every parse call on a Query that does not take the memo return,
\* with L the IR of the last parse that reified (the reified IR before the
\* call, or the previous IR when the call before failed): a call that fails
\* leaves L as the previous IR; a call that reifies after a failed call has
\* the query id of L, for every position where L has a source of the same view
\* the source id of L, and for every alias of L the variable id of L.
C25_ContinuityAcrossFailures ==
  [][(call'.op = "Query.parse" /\ call'.arg # call'.before) =>
       LET L == IF IsSet(q.reified) THEN q.reified ELSE q.prev
       IN /\ ~IsSet(q'.reified) => q'.prev = L
          /\ (IsSet(q'.reified) /\ ~IsSet(q.reified) /\ IsSet(L)) =>
               /\ q'.reified.id = L.id
               /\ \A k \in 1..Len(q'.reified.sources) :
                    (k <= Len(L.sources) /\ L.sources[k].sourceView = q'.reified.sources[k].sourceView)
                      => q'.reified.sources[k].source = L.sources[k].source
               /\ \A a \in DOMAIN q'.reified.aliases :
                    a \in DOMAIN L.aliases => q'.reified.aliases[a] = L.aliases[a]]_vars

\* a third parse that reified after a parse that reified and a parse that
\* failed, with a source and an alias of the first parse
C25_Witness ==
  /\ calls = 3 /\ call.op = "Query.parse" /\ call.arg # call.before
  /\ IsSet(q.reified) /\ IsSet(q.prev) /\ prevRaw # UNDEF /\ prevRaw # call.before
  /\ q.reified.id = q.prev.id
  /\ \E k \in 1..Len(q.reified.sources) :
       k <= Len(q.prev.sources) /\ q.reified.sources[k].source = q.prev.sources[k].source
  /\ \E a \in DOMAIN q.reified.aliases : a \in DOMAIN q.prev.aliases


\* C26: in the IR of every Query parse that reified, each pair (source id,
\* field id) of a field of a source is in the binding list of exactly one
\* variable, once; every entry of a binding list names a source of the IR and
\* a field of that source; every alias of the alias table maps to a variable
\* of the IR that carries that alias; and the fields of one alias are all
\* bound to the variable of that alias.
C26_BindingGraph ==
  (call.op = "Query.parse" /\ IsSet(q.reified)) =>
    LET ir == q.reified
        entries == UNION {{<<v, j>> : j \in 1..Len(ir.variables[v].bindings)} : v \in DOMAIN ir.variables}
        At(source, field) == {e \in entries :
                                ir.variables[e[1]].bindings[e[2]] = [source |-> source, field |-> field]}
    IN /\ \A i \in 1..Len(ir.sources) : \A k \in 1..Len(ir.sources[i].fields) :
            Cardinality(At(ir.sources[i].source, ir.sources[i].fields[k].field)) = 1
       /\ \A v \in DOMAIN ir.variables : \A j \in 1..Len(ir.variables[v].bindings) :
            \E i \in 1..Len(ir.sources) :
              /\ ir.sources[i].source = ir.variables[v].bindings[j].source
              /\ \E k \in 1..Len(ir.sources[i].fields) :
                   ir.sources[i].fields[k].field = ir.variables[v].bindings[j].field
       /\ \A a \in DOMAIN ir.aliases :
            ir.aliases[a] \in DOMAIN ir.variables /\ ir.variables[ir.aliases[a]].alias = a
       /\ \A i \in 1..Len(ir.sources) : \A k \in 1..Len(ir.sources[i].fields) :
            LET f == ir.sources[i].fields[k]
            IN f.alias # UNDEF =>
                 /\ f.alias \in DOMAIN ir.aliases
                 /\ \E e \in At(ir.sources[i].source, f.field) : e[1] = ir.aliases[f.alias]


\* C27: in the IR of a Query parse that reified, the sort list of every source
\* with an ordinal holds each field of the source exactly once, and its
\* entries have the ranks 0, 1, 2 ... in the order of the list.
C27_SortComplete ==
  (call.op = "Query.parse" /\ IsSet(q.reified)) =>
    \A s \in 1..Len(q.reified.sources) :
      LET source == q.reified.sources[s]
      IN source.ordinal # UNDEF =>
           /\ Len(source.sort) = Len(source.fields)
           /\ \A k \in 1..Len(source.fields) :
                Cardinality({j \in 1..Len(source.sort) : source.sort[j].field = source.fields[k].field}) = 1
           /\ \A j \in 1..Len(source.sort) : source.sort[j].ix = j - 1


\* C28: when a Ui text parses without error and the text of one of its binding
\* lines does not reify as a Query, the parse call returns normally with an
\* error in the error list and reified unset, and the IR it built has no bound
\* query under the key of an undefined id and no bound query without a
\* reified IR.
C28_FailedBindingQuery ==
  (/\ call.op = "Ui.parse" /\ call.arg # call.before
   /\ Ui_parseLines([chunks |-> <<>>, errors |-> <<>>], Split(call.arg, NL), 0).errors = <<>>
   /\ \E c \in 1..Len(u.ast.chunks) :
        /\ tokenIsBinding(u.ast.chunks[c])
        /\ ~IsSet(Query_parse(NewQuery, u.ast.chunks[c].text, 0).q.reified)) =>
    /\ ret # "throw"
    /\ ~IsSet(u.reified)
    /\ u.errors # <<>>
    /\ \A ir \in {x \in {u.reified, u.failed} : IsSet(x)} :
         /\ S_undefined \notin DOMAIN ir.boundQueries
         /\ \A k \in DOMAIN ir.boundQueries : IsSet(ir.boundQueries[k].reified)


\* C29: for every literal field that parseField produces, in the Query and in
\* the Ui language, tokenizing the text tokenToString gives for it and parsing
\* a field from the tokens consumes them all and gives a literal field of the
\* same value.
C29_LiteralRoundTrip ==
  call.op = "reparse" =>
    /\ rt.kind = "field"
    /\ rt.rest = <<>>
    /\ rt.field.value = call.arg.value


\* C30: after a Ui parse that reified, the id of the instance is the id of the
\* root element of the IR, and the ids of the root and of the elements are
\* pairwise distinct.
C30_IdsOfReifiedUi ==
  (call.op = "Ui.parse" /\ call.arg # call.before /\ ret # "throw" /\ IsSet(u.reified)) =>
    LET els == u.reified.elements
    IN /\ u.id = u.reified.root.element
       /\ \A n \in 1..Len(els) : els[n].element # u.reified.root.element
       /\ \A n \in 1..Len(els) : \A m \in 1..Len(els) : els[n].element = els[m].element => n = m

====
